---- MODULE Spec2Model ----
(***************************************************************************)
(* Playback interpolation buffer, player state and possession tracker and  *)
(* the animation loop that drives them (PlaybackBuffer.js,                 *)
(* PlayerManager.js, Player.js, main.js, TelestratorManager.js).           *)
(*                                                                         *)
(* Units.  Times are milliseconds.  Raw samples carry x, y in hundredths   *)
(* of a scene unit (the loader multiplies by 100) and the tracker divides  *)
(* them by 100.0 again; scene coordinates are kept here as fixed-point     *)
(* numbers counted in hundredths of a scene unit, so 1.5 scene units is    *)
(* 150 and x / 100.0 of a raw sample x is the number x of hundredths.      *)
(* Floating-point rounding is replaced by rounding to a hundredth.         *)
(* Arrays are 1-based sequences; index 0 stands for findIndex's -1.        *)
(***************************************************************************)
EXTENDS Integers, Sequences, FiniteSets, TLC

VARIABLES
  frames,              \* PlaybackBuffer.frames
  playbackClock,       \* main: playbackClock
  isPlaying,           \* main: isPlaying
  isLive,              \* main: isLive
  playbackRate,        \* main: playbackRate, counted in halves (0.5x = 1)
  playerMap,           \* PlayerManager.playerMap: id -> Player
  order,               \* insertion order of playerMap (Map iteration order)
  ball,                \* PlayerManager.ball (an id, or Null)
  playerInPossession,  \* PlayerManager.playerInPossession (an id, or Null)
  gapStates,           \* PlayerManager.gapStates: id -> gap state
  isLsMode,            \* TelestratorManager.isLsMode
  zones,               \* number of zone annotations (getZones().length)
  created,             \* number of Player objects constructed so far
  ticks,               \* number of animation callbacks run so far
  lastUpdate,          \* arguments of the last updateWithInterpolation call
  lastSeen,            \* per id, the sample the tracker observed most recently
  lsRead,              \* positions calculateLs read in the last callback
  query                \* last buffer query and its result (buffer harness)

vars == << frames, playbackClock, isPlaying, isLive, playbackRate, playerMap,
           order, ball, playerInPossession, gapStates, isLsMode, zones,
           created, ticks, lastUpdate, lastSeen, lsRead, query >>

Null == "null"                     \* null where an id is expected

None == [none |-> TRUE]            \* null where an object is expected

----------------------------------------------------------------------------
(* Bounds of the model *)

MaxFrames == 4       \* frames of a playback scenario
MaxTicks == 3        \* animation callbacks of one run
MaxBufFrames == 3    \* frames of a buffer handed to the buffer harness

----------------------------------------------------------------------------
(* Entities (MatchDataLoader._createMetadataMap) *)

Ids == {"P1", "P2", "R1", "Ball"}

EntityName(id) ==
  IF id = "Ball" THEN "Ball" ELSE IF id = "R1" THEN "Referee" ELSE "Player"

EntityTeam(id) ==
  CASE id = "Ball" -> "Ball"
    [] id = "R1" -> "Referee"
    [] id = "P1" -> "Home"
    [] OTHER -> "Away"

EntityRole(id) ==
  CASE id = "Ball" -> "BALL"
    [] id = "R1" -> "REF"
    [] OTHER -> "CM"

Sample(id, x, y) == [id |-> id, x |-> x, y |-> y]

Frame(t, ps) == [videoTime |-> t, players |-> ps]

----------------------------------------------------------------------------
(* PlaybackBuffer *)

RECURSIVE FindIndexGE(_, _, _)
\* frames.findIndex(f => f.videoTime >= t), scanning from index i
FindIndexGE(fr, t, i) ==
  IF i > Len(fr) THEN 0
  ELSE IF fr[i].videoTime >= t THEN i
  ELSE FindIndexGE(fr, t, i + 1)

RECURSIVE FindIndexGT(_, _, _)
\* frames.findIndex(f => f.videoTime > t), scanning from index i
FindIndexGT(fr, t, i) ==
  IF i > Len(fr) THEN 0
  ELSE IF fr[i].videoTime > t THEN i
  ELSE FindIndexGT(fr, t, i + 1)

\* timeSpan ending at the first frame's time
timeSpanOfFirst(fr) ==
  IF Len(fr) < 2 THEN [start |-> 0, end |-> 0]
  ELSE [start |-> fr[1].videoTime, end |-> fr[1].videoTime]

timeSpan(fr) ==
  IF Len(fr) < 2 THEN [start |-> 0, end |-> 0]
  ELSE [start |-> fr[1].videoTime, end |-> fr[Len(fr)].videoTime]

\* findFramesForInterpolation scanning for the first frame strictly after t
findFramesForInterpolationStrict(fr, t) ==
  IF Len(fr) < 2 THEN None
  ELSE LET nextFrameIndex == FindIndexGT(fr, t, 1) IN
       IF nextFrameIndex = 0 THEN [prev |-> Len(fr), next |-> Len(fr)]
       ELSE IF nextFrameIndex = 1 THEN [prev |-> 1, next |-> 1]
       ELSE [prev |-> nextFrameIndex - 1, next |-> nextFrameIndex]

\* findFramesForInterpolation without the boundary policy and the length guard
findFramesForInterpolationNoBoundary(fr, t) ==
  IF Len(fr) < 1 THEN None
  ELSE LET nextFrameIndex == FindIndexGE(fr, t, 1) IN
       IF nextFrameIndex = 0 THEN [prev |-> Len(fr) - 1, next |-> Len(fr)]
       ELSE IF nextFrameIndex = 1 THEN [prev |-> 1, next |-> 2]
       ELSE [prev |-> nextFrameIndex - 1, next |-> nextFrameIndex]

\* The pair of frames is returned as the pair of their indexes.
findFramesForInterpolation(fr, t) ==
  IF Len(fr) < 2 THEN None
  ELSE LET nextFrameIndex == FindIndexGE(fr, t, 1) IN
       IF nextFrameIndex = 0 THEN [prev |-> Len(fr), next |-> Len(fr)]
       ELSE IF nextFrameIndex = 1 THEN [prev |-> 1, next |-> 1]
       ELSE [prev |-> nextFrameIndex - 1, next |-> nextFrameIndex]

RECURSIVE FindSample(_, _, _)
\* players.find(p => p.id === id): the first sample of that id, or None
FindSample(ps, id, i) ==
  IF i > Len(ps) THEN None
  ELSE IF ps[i].id = id THEN ps[i]
  ELSE FindSample(ps, id, i + 1)

gracePeriodMs == 600000

RECURSIVE ScanAppearance(_, _, _, _)
\* the for loop of findNextAppearance from index i
ScanAppearance(fr, id, endTime, i) ==
  IF i > Len(fr) THEN None
  ELSE IF fr[i].videoTime > endTime THEN None
  ELSE LET player == FindSample(fr[i].players, id, 1) IN
       IF player # None THEN [player |-> player, time |-> fr[i].videoTime]
       ELSE ScanAppearance(fr, id, endTime, i + 1)

\* findNextAppearance starting at the first frame at or after afterTime
findNextAppearanceFromAfterTime(fr, id, afterTime) ==
  LET startIndex == FindIndexGE(fr, afterTime, 1) IN
  IF startIndex = 0 THEN None
  ELSE ScanAppearance(fr, id, afterTime + gracePeriodMs, startIndex)

findNextAppearance(fr, id, afterTime) ==
  LET startIndex == FindIndexGT(fr, afterTime, 1) IN
  IF startIndex = 0 THEN None
  ELSE ScanAppearance(fr, id, afterTime + gracePeriodMs, startIndex)

----------------------------------------------------------------------------
(* Vectors and fixed-point arithmetic *)

Vec(x, z) == [x |-> x, z |-> z]

\* a + (b - a) * n / d for a ratio n / d with d > 0
Lerp1(a, b, n, d) == a + ((b - a) * n) \div d

\* Vector3.lerpVectors(v1, v2, n / d) on the ground plane
lerpVectors(v1, v2, n, d) ==
  Vec(Lerp1(v1.x, v2.x, n, d), Lerp1(v1.z, v2.z, n, d))

\* mesh.position.y set by the Player constructor: ballRadius, or height / 2
MeshY(id) == IF EntityName(id) = "Ball" THEN 22 ELSE 90

\* square of Vector3.distanceTo between the meshes of two players
DistSq(p, q) ==
  (p.pos.x - q.pos.x) * (p.pos.x - q.pos.x)
  + (p.y - q.y) * (p.y - q.y)
  + (p.pos.z - q.pos.z) * (p.pos.z - q.pos.z)

----------------------------------------------------------------------------
(* Player *)

\* new Player(scene, playerData, color, manager): the mesh starts at the
\* origin at its own height, targetRoot is a copy of the mesh position
NewPlayer(playerData, serial) ==
  [playerData |-> playerData,
   isInferred |-> FALSE,
   targetRoot |-> Vec(0, 0),
   pos |-> Vec(0, 0),
   y |-> MeshY(playerData.id),
   obj |-> serial]

setInferred(player, flag) == [player EXCEPT !.isInferred = flag]

updateTarget(player, targetPosition) ==
  [player EXCEPT !.targetRoot = Vec(targetPosition.x, targetPosition.z)]

\* mesh.position.lerp(targetRoot, pct / 100)
smooth(player, pct) ==
  [player EXCEPT !.pos = Vec(Lerp1(player.pos.x, player.targetRoot.x, pct, 100),
                             Lerp1(player.pos.z, player.targetRoot.z, pct, 100))]

----------------------------------------------------------------------------
(* PlayerManager *)

POSSESSION_THRESHOLD == 150

RECURSIVE MapGet(_, _, _)
\* new Map(players.map(p => [p.id, p])).get(id): the last sample of that id
MapGet(ps, id, i) ==
  IF i = 0 THEN None
  ELSE IF ps[i].id = id THEN ps[i]
  ELSE MapGet(ps, id, i - 1)

Remove(f, id) == [k \in DOMAIN f \ {id} |-> f[k]]

RECURSIVE AddIds(_, _, _)
\* allKnownIds: the keys of playerMap, then the ids of nextFrame.players
AddIds(ids, ps, i) ==
  IF i > Len(ps) THEN ids
  ELSE IF \E k \in 1..Len(ids) : ids[k] = ps[i].id THEN AddIds(ids, ps, i + 1)
  ELSE AddIds(Append(ids, ps[i].id), ps, i + 1)

\* Math.max(0, Math.min(1, timeIntoGap / gapDuration)) for gapDuration > 0
gapAlpha(timeIntoGap, gapDuration) ==
  IF timeIntoGap <= 0 THEN [n |-> 0, d |-> 1]
  ELSE IF timeIntoGap >= gapDuration THEN [n |-> 1, d |-> 1]
  ELSE [n |-> timeIntoGap, d |-> gapDuration]

\* if (!player): a Player is constructed only for an id not yet in playerMap
NeedsNewPlayerWhenInferred(pm, id) ==
  id \notin DOMAIN pm \/ pm[id].isInferred

NeedsNewPlayer(pm, id) == id \notin DOMAIN pm

\* Case 1: the target interpolated between the samples of the pair
CaseOneTarget(prevData, nextData, an, ad) ==
  LET startX == IF prevData # None THEN prevData.x ELSE nextData.x
      startY == IF prevData # None THEN prevData.y ELSE nextData.y
  IN Vec(Lerp1(startX, nextData.x, an, ad), Lerp1(startY, nextData.y, an, ad))

\* prevData || this.playerMap.get(id)?.playerData
lastKnownDataOf(prevData, player) ==
  IF prevData # None THEN prevData ELSE player.playerData

\* the gap state stored at the start of a gap
NewGapState(lastKnownData, futureFrame, nextFrame) ==
  [startPos |-> Vec(lastKnownData.x, lastKnownData.y),
   endPos |-> Vec(futureFrame.player.x, futureFrame.player.y),
   startTime |-> nextFrame.videoTime,
   endTime |-> futureFrame.time]

GapFinishedNever(currentTime, state) == FALSE

\* currentTime >= state.endTime
GapFinished(currentTime, state) == currentTime >= state.endTime

\* The body of the loop over allKnownIds for one id.  st holds the fields of
\* the manager: pm (playerMap), ord, ball, gaps (gapStates), created, pip,
\* and seen (the samples observed so far).
UpdateOne(st, id, prevFrame, nextFrame, an, ad, fr) ==
  LET prevData == MapGet(prevFrame.players, id, Len(prevFrame.players))
      nextData == MapGet(nextFrame.players, id, Len(nextFrame.players))
      known == id \in DOMAIN st.pm
      playerData == IF nextData # None THEN nextData
                    ELSE IF prevData # None THEN prevData
                    ELSE IF known THEN st.pm[id].playerData
                    ELSE None
      currentTime == prevFrame.videoTime
                     + ((nextFrame.videoTime - prevFrame.videoTime) * an) \div ad
  IN
  IF playerData = None THEN st
  ELSE
    LET st1 == IF ~NeedsNewPlayer(st.pm, id) THEN st
               ELSE [st EXCEPT
                       !.pm = (id :> NewPlayer(playerData, st.created + 1)) @@ @,
                       !.ord = IF known THEN @ ELSE Append(@, id),
                       !.ball = IF EntityName(id) = "Ball" THEN id ELSE @,
                       !.created = @ + 1]
        st2 == [st1 EXCEPT !.seen = IF nextData # None THEN (id :> nextData) @@ @
                                    ELSE IF prevData # None THEN (id :> prevData) @@ @
                                    ELSE @]
        player == st2.pm[id]
    IN
    IF nextData # None THEN
      \* Case 1: visible in the current interpolation window
      [st2 EXCEPT
         !.gaps = Remove(@, id),
         !.pm[id] = updateTarget(setInferred(player, FALSE),
                                 CaseOneTarget(prevData, nextData, an, ad))]
    ELSE
      \* Case 2: not visible
      LET futureFrame == findNextAppearance(fr, id, nextFrame.videoTime)
          lastKnownData == lastKnownDataOf(prevData, player)
          \* Sub-case 2a: start of a new gap
          gaps1 == IF id \notin DOMAIN st2.gaps /\ futureFrame # None
                      /\ lastKnownData # None
                   THEN (id :> NewGapState(lastKnownData, futureFrame, nextFrame))
                        @@ st2.gaps
                   ELSE st2.gaps
      IN
      IF id \in DOMAIN gaps1 THEN
        \* Sub-case 2b: in a known gap
        LET state == gaps1[id] IN
        IF GapFinished(currentTime, state) THEN
          [st2 EXCEPT
             !.gaps = Remove(gaps1, id),
             !.pm[id] = setInferred(updateTarget(setInferred(player, TRUE),
                                                 state.endPos), FALSE)]
        ELSE
          LET a == gapAlpha(currentTime - state.startTime,
                            state.endTime - state.startTime)
          IN [st2 EXCEPT
                !.gaps = gaps1,
                !.pm[id] = updateTarget(setInferred(player, TRUE),
                             lerpVectors(state.startPos, state.endPos, a.n, a.d))]
      ELSE
        [st2 EXCEPT !.gaps = gaps1, !.pm[id] = setInferred(player, TRUE)]

RECURSIVE UpdateLoop(_, _, _, _, _, _, _, _)
UpdateLoop(st, ids, i, prevFrame, nextFrame, an, ad, fr) ==
  IF i > Len(ids) THEN st
  ELSE UpdateLoop(UpdateOne(st, ids[i], prevFrame, nextFrame, an, ad, fr),
                  ids, i + 1, prevFrame, nextFrame, an, ad, fr)

\* updateWithInterpolation(prevFrame, nextFrame, alpha, buffer), alpha = an / ad
updateWithInterpolation(st, prevFrame, nextFrame, an, ad, fr) ==
  IF Len(prevFrame.players) = 0 /\ Len(nextFrame.players) = 0 THEN
    [st EXCEPT !.pm = [id \in DOMAIN st.pm |-> setInferred(st.pm[id], TRUE)]]
  ELSE
    UpdateLoop(st, AddIds(st.ord, nextFrame.players, 1), 1,
               prevFrame, nextFrame, an, ad, fr)

CloserOrEqual(distSq, minSq) == distSq <= minSq

\* dist < minDistance, on the squares of the two distances
Closer(distSq, minSq) == distSq < minSq

RECURSIVE ClosestScan(_, _, _, _, _, _)
\* the loop of _updatePlayerInPossession: closestPlayer after the players
\* from position i on, given closestPlayer and minDistance squared so far
ClosestScan(pm, ord, b, i, closest, minSq) ==
  IF i > Len(ord) THEN closest
  ELSE LET id == ord[i] IN
       IF EntityName(id) = "Ball" \/ EntityTeam(id) = "Referee"
       THEN ClosestScan(pm, ord, b, i + 1, closest, minSq)
       ELSE IF Closer(DistSq(pm[id], pm[b]), minSq)
            THEN ClosestScan(pm, ord, b, i + 1, id, DistSq(pm[id], pm[b]))
            ELSE ClosestScan(pm, ord, b, i + 1, closest, minSq)

\* _updatePlayerInPossession: the new value of playerInPossession
UpdatePlayerInPossession(pm, ord, b, pip) ==
  IF b = Null THEN Null
  ELSE LET closestPlayer == ClosestScan(pm, ord, b, 1, Null,
                                        POSSESSION_THRESHOLD * POSSESSION_THRESHOLD)
       IN IF closestPlayer # Null /\ pip # closestPlayer THEN closestPlayer
          ELSE IF closestPlayer = Null /\ pip # Null THEN Null
          ELSE pip

\* smoothAll(alpha, dt) with alpha = pct / 100
smoothAll(st, pct) ==
  LET pm1 == [id \in DOMAIN st.pm |-> smooth(st.pm[id], pct)] IN
  [st EXCEPT !.pm = pm1,
             !.pip = UpdatePlayerInPossession(pm1, st.ord, st.ball, st.pip)]

\* getAllTeamPlayers(teamName)
getAllTeamPlayers(pm, teamName) ==
  {id \in DOMAIN pm : EntityTeam(id) = teamName
                      /\ EntityRole(id) # "BALL" /\ EntityRole(id) # "REF"}

----------------------------------------------------------------------------
(* TelestratorManager *)

MaxZones == 1

\* updateLsVisualizer: the player state calculateLs reads, None when the
\* callback computes no score
updateLsVisualizer(st, lsMode, zn, tick) ==
  IF ~lsMode THEN None
  ELSE IF zn = 0 \/ st.pip = Null THEN None
  ELSE LET carrier == st.pip
           attackingTeamName == EntityTeam(carrier)
           defendingTeamName == IF attackingTeamName = "Home" THEN "Away"
                                ELSE "Home"
           readers == getAllTeamPlayers(st.pm, attackingTeamName)
                      \cup getAllTeamPlayers(st.pm, defendingTeamName)
       IN [tick |-> tick,
           carrier |-> carrier,
           pos |-> [id \in readers |-> st.pm[id].pos]]

SetLsMode(enabled) ==
  /\ isLsMode' = enabled
  /\ UNCHANGED << frames, playbackClock, isPlaying, isLive, playbackRate,
                  playerMap, order, ball, playerInPossession, gapStates,
                  zones, created, ticks, lastUpdate, lastSeen, lsRead, query >>

\* a zone drawn with one of the zone tools (handleMouseDown, isZone: true)
DrawZone ==
  /\ zones < MaxZones
  /\ zones' = zones + 1
  /\ UNCHANGED << frames, playbackClock, isPlaying, isLive, playbackRate,
                  playerMap, order, ball, playerInPossession, gapStates,
                  isLsMode, created, ticks, lastUpdate, lastSeen, lsRead,
                  query >>

\* clearAll removes every annotation and ends with setLsMode(false)
ClearAll ==
  /\ zones' = 0
  /\ isLsMode' = FALSE
  /\ UNCHANGED << frames, playbackClock, isPlaying, isLive, playbackRate,
                  playerMap, order, ball, playerInPossession, gapStates,
                  created, ticks, lastUpdate, lastSeen, lsRead, query >>

----------------------------------------------------------------------------
(* main: playback controls *)

tenSecondsMs == 10000

Rates == {1, 2, 4}                  \* the options 0.5x, 1x, 2x in halves

SliderValues == {0, 500, 1000}

SliderMax == 1000

DtValues == {100}                  \* dt of a callback, at its cap of 100 ms

TimestampValues == {0, 1000}        \* (minutes * 60 + seconds) * 1000

Max(a, b) == IF a >= b THEN a ELSE b

Min(a, b) == IF a <= b THEN a ELSE b

first(fr) == fr[1]

last(fr) == fr[Len(fr)]

trackerVars == << playerMap, order, ball, playerInPossession, gapStates,
                  created, ticks, lastUpdate, lastSeen, lsRead >>

handleGoToTimestamp(targetMs) ==
  LET span == timeSpan(frames) IN
  /\ playbackClock' = Max(span.start, Min(span.end, targetMs))
  /\ isPlaying' = FALSE
  /\ UNCHANGED << frames, isLive, playbackRate, isLsMode, zones, query >>
  /\ UNCHANGED trackerVars

RateChange(v) ==
  /\ playbackRate' = v
  /\ UNCHANGED << frames, playbackClock, isPlaying, isLive, isLsMode, zones,
                  query >>
  /\ UNCHANGED trackerVars

\* playBtn.onclick; buffer.last() of an empty buffer is undefined and the
\* handler throws before it changes anything
PlayBtn ==
  /\ isPlaying \/ Len(frames) > 0
  /\ LET restart == ~isPlaying /\ playbackClock >= last(frames).videoTime IN
     /\ playbackClock' = IF restart THEN first(frames).videoTime
                         ELSE playbackClock
     /\ isLive' = IF restart THEN FALSE ELSE isLive
  /\ isPlaying' = ~isPlaying
  /\ UNCHANGED << frames, playbackRate, isLsMode, zones, query >>
  /\ UNCHANGED trackerVars

LiveBtn ==
  /\ Len(frames) > 0
  /\ playbackClock' = last(frames).videoTime
  /\ isLive' = TRUE
  /\ isPlaying' = FALSE
  /\ UNCHANGED << frames, playbackRate, isLsMode, zones, query >>
  /\ UNCHANGED trackerVars

\* back10.onclick; on an empty buffer isLive is cleared and then it throws
Back10 ==
  /\ isLive' = FALSE
  /\ playbackClock' = IF Len(frames) = 0 THEN playbackClock
                      ELSE Max(first(frames).videoTime,
                               playbackClock - tenSecondsMs)
  /\ UNCHANGED << frames, isPlaying, playbackRate, isLsMode, zones, query >>
  /\ UNCHANGED trackerVars

Fwd10 ==
  /\ Len(frames) > 0
  /\ playbackClock' = Min(last(frames).videoTime, playbackClock + tenSecondsMs)
  /\ isLive' = IF playbackClock' >= last(frames).videoTime THEN TRUE ELSE isLive
  /\ UNCHANGED << frames, isPlaying, playbackRate, isLsMode, zones, query >>
  /\ UNCHANGED trackerVars

\* frameForFraction(frac) as an index, 0 for null
frameForFraction(fr, num, den) ==
  IF Len(fr) = 0 THEN 0 ELSE (num * (Len(fr) - 1)) \div den + 1

SliderInput(v) ==
  LET f == frameForFraction(frames, v, SliderMax) IN
  /\ isLive' = FALSE
  /\ playbackClock' = IF f # 0 THEN frames[f].videoTime ELSE playbackClock
  /\ UNCHANGED << frames, isPlaying, playbackRate, isLsMode, zones, query >>
  /\ UNCHANGED trackerVars

----------------------------------------------------------------------------
(* main: the animation loop *)

SmoothPct == 15                     \* playerManager.smoothAll(0.15, dt)

SeenBeforeSmoothing(s1, s2) == s1

\* telestratorManager.update() is called after playerManager.smoothAll: of
\* the manager states s1 (after updateWithInterpolation) and s2 (after
\* smoothAll), the one the telestrator reads
SeenByTelestrator(s1, s2) == s2

Tick(dt) ==
  /\ ticks < MaxTicks
  /\ LET clock1 == IF isPlaying /\ dt > 0
                   THEN playbackClock + (dt * playbackRate) \div 2
                   ELSE playbackClock
         span == timeSpan(frames)
         atEnd == clock1 >= span.end
         clock2 == IF atEnd THEN span.end ELSE clock1
         fp == findFramesForInterpolation(frames, clock2)
         s0 == [pm |-> playerMap, ord |-> order, ball |-> ball,
                gaps |-> gapStates, created |-> created, seen |-> lastSeen,
                pip |-> playerInPossession]
         prev == frames[fp.prev]
         next == frames[fp.next]
         frameDuration == next.videoTime - prev.videoTime
         an == IF frameDuration > 0 THEN clock2 - prev.videoTime ELSE 0
         ad == IF frameDuration > 0 THEN frameDuration ELSE 1
         s1 == IF fp # None
               THEN updateWithInterpolation(s0, prev, next, an, ad, frames)
               ELSE s0
         s2 == smoothAll(s1, SmoothPct)
     IN
     /\ playbackClock' = clock2
     /\ isLive' = atEnd
     /\ isPlaying' = IF atEnd THEN FALSE ELSE isPlaying
     /\ playerMap' = s2.pm
     /\ order' = s2.ord
     /\ ball' = s2.ball
     /\ gapStates' = s2.gaps
     /\ created' = s2.created
     /\ lastSeen' = s2.seen
     /\ playerInPossession' = s2.pip
     /\ lastUpdate' = IF fp # None
                      THEN [tick |-> ticks + 1, prev |-> fp.prev,
                            next |-> fp.next,
                            currentTime |-> prev.videoTime
                                            + (frameDuration * an) \div ad,
                            known |-> DOMAIN playerMap,
                            gaps |-> gapStates]
                      ELSE lastUpdate
     /\ lsRead' = updateLsVisualizer(SeenByTelestrator(s1, s2), isLsMode,
                                     zones, ticks + 1)
  /\ ticks' = ticks + 1
  /\ UNCHANGED << frames, playbackRate, isLsMode, zones, query >>

----------------------------------------------------------------------------
(* Buffers *)

RECURSIVE SortedSeq(_)
SortedSeq(S) ==
  IF S = {} THEN << >>
  ELSE LET m == CHOOSE x \in S : \A y \in S : x <= y
       IN << m >> \o SortedSeq(S \ {m})

\* MatchDataLoader._process: frame_time_ms = frame / FPS * 1000 with FPS = 10
FrameTime(frameNum) == (frameNum * 1000) \div 10

\* frame numbers 0..n-1, or the same with one inner frame missing
FrameNumberSets ==
  UNION {{0..(n - 1)} \cup {(0..(n - 1)) \ {h} : h \in 1..(n - 2)} :
         n \in 0..MaxFrames}

ScenarioTimes == {SortedSeq({FrameTime(n) : n \in S}) : S \in FrameNumberSets}

BallAtOrigin == Sample("Ball", 0, 0)

\* where P1 is sampled at time t, when it is in the frame
P1At(t) == Sample("P1", IF (t \div 100) % 2 = 0 THEN 0 ELSE 1200, 0)

\* scenarios in which P1 comes and goes while the ball is always tracked
GapBuffers ==
  UNION {{[i \in 1..Len(ts) |->
             Frame(ts[i], IF c[i] THEN << BallAtOrigin, P1At(ts[i]) >>
                          ELSE << BallAtOrigin >>)] :
            c \in [1..Len(ts) -> BOOLEAN]} : ts \in ScenarioTimes}

P1Xs == {0, 400, 1200}

P2Xs == {400, 1200}

\* the ball, the referee at the ball, and one player of each team
RefLists ==
  {<< BallAtOrigin, Sample("R1", 0, 0), Sample("P1", x1, 0),
      Sample("P2", x2, 0) >> : x1 \in P1Xs, x2 \in P2Xs}

\* the same without the referee, the away player first
SwapLists ==
  {<< BallAtOrigin, Sample("P2", x2, 0), Sample("P1", x1, 0) >> :
     x1 \in P1Xs, x2 \in P2Xs}

NoBallLists ==
  {<< Sample("R1", 0, 0), Sample("P1", x1, 0), Sample("P2", 400, 0) >> :
     x1 \in P1Xs}

\* two-frame scenarios in which the players move about the ball
LsBuffers == {<< Frame(0, a), Frame(100, b) >> : a \in RefLists, b \in RefLists}

PossessionBuffers ==
  LsBuffers
  \cup {<< Frame(0, a), Frame(100, a) >> : a \in SwapLists \cup NoBallLists}

Scenarios == GapBuffers \cup PossessionBuffers

BufTimes == {0, 100, 200}

BufPlayers == {<< Sample("P1", 0, 0) >>, << BallAtOrigin >>,
               << BallAtOrigin, Sample("P1", 0, 0) >>}

BufFrames == {Frame(t, ps) : t \in BufTimes, ps \in BufPlayers}

BufInputs == UNION {[1..k -> BufFrames] : k \in 0..MaxBufFrames}

QueryTimes == {-5, 0, 50, 100, 150, 200, 500}

----------------------------------------------------------------------------
(* Specifications *)

InitRest ==
  /\ playbackClock = IF Len(frames) > 0 THEN first(frames).videoTime ELSE 0
  /\ isPlaying = FALSE
  /\ isLive = FALSE
  /\ playbackRate = 2
  /\ playerMap = << >>
  /\ order = << >>
  /\ ball = Null
  /\ playerInPossession = Null
  /\ gapStates = << >>
  /\ isLsMode = FALSE
  /\ zones = 0
  /\ created = 0
  /\ ticks = 0
  /\ lastUpdate = None
  /\ lastSeen = << >>
  /\ lsRead = None
  /\ query = None

Init ==
  /\ frames \in Scenarios
  /\ InitRest

Next ==
  \/ \E dt \in DtValues : Tick(dt)
  \/ PlayBtn
  \/ LiveBtn
  \/ Back10
  \/ Fwd10
  \/ \E v \in SliderValues : SliderInput(v)
  \/ \E ms \in TimestampValues : handleGoToTimestamp(ms)

Spec == Init /\ [][Next]_vars

\* playback with the Leakage Score visualizer in use
InitLs ==
  /\ frames \in LsBuffers
  /\ InitRest

NextLs ==
  \/ \E dt \in DtValues : Tick(dt)
  \/ PlayBtn
  \/ \E b \in BOOLEAN : SetLsMode(b)
  \/ DrawZone
  \/ ClearAll

SpecLs == InitLs /\ [][NextLs]_vars

\* the buffer harness: queries against arbitrary buffers
QueryFrames(t) ==
  /\ query' = [op |-> "frames", t |-> t,
               result |-> findFramesForInterpolation(frames, t)]
  /\ UNCHANGED << frames, playbackClock, isPlaying, isLive, playbackRate,
                  isLsMode, zones >>
  /\ UNCHANGED trackerVars

InitBuf ==
  /\ frames \in BufInputs
  /\ InitRest

NextBuf == \E t \in QueryTimes : QueryFrames(t)

SpecBuf == InitBuf /\ [][NextBuf]_vars

----------------------------------------------------------------------------
(* Properties *)

Sorted(fr) ==
  \A i, j \in 1..Len(fr) : i < j => fr[i].videoTime <= fr[j].videoTime

Has(frame, id) == \E k \in 1..Len(frame.players) : frame.players[k].id = id

SampleIn(frame, id) ==
  frame.players[CHOOSE k \in 1..Len(frame.players) : frame.players[k].id = id]

IsFramesQuery == query # None /\ query.op = "frames"

\* C1: in a buffer sorted ascending by time, a query time t with
\* first.time < t <= last.time yields two consecutive frames (prev, next)
\* with prev.time < t <= next.time.
C1_BoundingPair ==
  (IsFramesQuery /\ Sorted(frames) /\ Len(frames) > 0
     /\ first(frames).videoTime < query.t
     /\ query.t <= last(frames).videoTime)
  => /\ query.result # None
     /\ query.result.next = query.result.prev + 1
     /\ frames[query.result.prev].videoTime < query.t
     /\ query.t <= frames[query.result.next].videoTime

\* frames at 0, 100, 200 queried at 150 give (frame@100, frame@200)
C1_Witness ==
  /\ IsFramesQuery
  /\ Len(frames) = 3
  /\ \A i \in 1..3 : frames[i].videoTime = 100 * (i - 1)
  /\ query.t = 150
  /\ query.result = [prev |-> 2, next |-> 3]

\* C2 as stated: every buffer of at least one frame answers (first, first)
\* before the first frame's time and (last, last) after the last frame's
\* time, and never answers "no pair".
C2_Original ==
  (IsFramesQuery /\ Len(frames) >= 1)
  => /\ query.result # None
     /\ (query.t < first(frames).videoTime
           => query.result = [prev |-> 1, next |-> 1])
     /\ (query.t > last(frames).videoTime
           => query.result = [prev |-> Len(frames), next |-> Len(frames)])

\* C2 amended: a buffer of fewer than two frames answers "no pair"; a buffer
\* of at least two frames always answers a pair, (first, first) before the
\* first frame's time and, when sorted ascending, (last, last) after the
\* last frame's time.
C2_BoundaryPolicy ==
  IsFramesQuery
  => /\ (Len(frames) < 2 => query.result = None)
     /\ (Len(frames) >= 2
           => /\ query.result # None
              /\ (query.t < first(frames).videoTime
                    => query.result = [prev |-> 1, next |-> 1])
              /\ ((Sorted(frames) /\ query.t > last(frames).videoTime)
                    => query.result = [prev |-> Len(frames),
                                       next |-> Len(frames)]))

C2_Witness ==
  /\ IsFramesQuery
  /\ Len(frames) = 3
  /\ Sorted(frames)
  /\ query.t > last(frames).videoTime
  /\ query.result = [prev |-> 3, next |-> 3]

\* the scenario of the gap-fill property: id is sampled at t=0, missing at
\* t=100 and next sampled at t=300
GapScenario(id) ==
  \E i, j, k \in 1..Len(frames) :
    /\ frames[i].videoTime = 0 /\ Has(frames[i], id)
    /\ frames[j].videoTime = 100 /\ ~Has(frames[j], id)
    /\ frames[k].videoTime = 300 /\ Has(frames[k], id)
    /\ \A m \in 1..Len(frames) :
         (100 < frames[m].videoTime /\ frames[m].videoTime < 300)
           => ~Has(frames[m], id)

SampleAt(id, t) ==
  SampleIn(frames[CHOOSE i \in 1..Len(frames) : frames[i].videoTime = t], id)

UpdatedAt(t) == lastUpdate # None /\ lastUpdate.currentTime = t

\* C3: in the gap scenario the target assigned at playback time 200 is the
\* midpoint of the entity's samples at t=0 and t=300.
C3_GapMidpoint ==
  \A id \in DOMAIN playerMap :
    (GapScenario(id) /\ UpdatedAt(200))
    => /\ 2 * playerMap[id].targetRoot.x = SampleAt(id, 0).x + SampleAt(id, 300).x
       /\ 2 * playerMap[id].targetRoot.z = SampleAt(id, 0).y + SampleAt(id, 300).y

\* C4: in the gap scenario the entity is flagged inferred after every update
\* whose playback time lies in [100, 300).
C4_InferredThroughGap ==
  \A id \in DOMAIN playerMap :
    (GapScenario(id) /\ lastUpdate # None
       /\ 100 <= lastUpdate.currentTime /\ lastUpdate.currentTime < 300)
    => playerMap[id].isInferred

\* C5 as stated: after an update whose playback time lies outside
\* [startTime, endTime) of a gap state stored for an entity, gapStates holds
\* no entry for that entity.
C5_Original ==
  lastUpdate # None
  => \A id \in DOMAIN lastUpdate.gaps :
       ~(lastUpdate.gaps[id].startTime <= lastUpdate.currentTime
           /\ lastUpdate.currentTime < lastUpdate.gaps[id].endTime)
       => id \notin DOMAIN gapStates

\* C5 amended: after every update, gapStates holds entries only for
\* entities missing from the next frame of the pair, and every entry ends
\* after the update's playback time (an entry is dropped once the playback
\* time reaches its end time or the entity is back in the data, and is kept
\* while the playback time is before its start time).
C5_GapDiscardedAtEnd ==
  /\ lastUpdate = None => DOMAIN gapStates = {}
  /\ lastUpdate # None
     => \A id \in DOMAIN gapStates :
          /\ lastUpdate.currentTime < gapStates[id].endTime
          /\ ~Has(frames[lastUpdate.next], id)

\* an update past the end of a stored gap has dropped it, the entity still
\* being missing from the data
C5_Witness ==
  /\ lastUpdate # None
  /\ \E id \in DOMAIN lastUpdate.gaps :
       /\ lastUpdate.currentTime >= lastUpdate.gaps[id].endTime
       /\ ~Has(frames[lastUpdate.next], id)
       /\ id \notin DOMAIN gapStates

\* C6: a gap state that an update creates starts at the position of the
\* sample of the entity observed most recently, and ends at the position and
\* time of the entity's next appearance in the buffer.
C6_GapEndpoints ==
  [][\A id \in DOMAIN gapStates' :
       (id \notin DOMAIN gapStates \/ gapStates[id] # gapStates'[id])
       => /\ gapStates'[id].startPos = Vec(lastSeen'[id].x, lastSeen'[id].y)
          /\ \E k \in 1..Len(frames) :
               /\ frames[k].videoTime = gapStates'[id].endTime
               /\ Has(frames[k], id)
               /\ gapStates'[id].endPos = Vec(SampleIn(frames[k], id).x,
                                              SampleIn(frames[k], id).y)
               /\ \A m \in 1..Len(frames) :
                    (gapStates'[id].startTime < frames[m].videoTime
                       /\ frames[m].videoTime < frames[k].videoTime)
                    => ~Has(frames[m], id)]_vars

\* no frame after time t holds a sample of id
NoReappearance(id, t) ==
  \A m \in 1..Len(frames) : frames[m].videoTime > t => ~Has(frames[m], id)

\* C7: an update that finds a known entity missing from the next frame, with
\* no later appearance to be found, flags it inferred and leaves its target
\* where it was.
C7_FrozenWhenNoFuture ==
  [][(lastUpdate' # None /\ lastUpdate'.tick = ticks')
       => \A id \in DOMAIN playerMap :
            (~Has(frames[lastUpdate'.next], id)
               /\ NoReappearance(id, frames[lastUpdate'.next].videoTime))
            => /\ playerMap'[id].isInferred
               /\ playerMap'[id].targetRoot = playerMap[id].targetRoot]_vars

OrderIndex(id) == CHOOSE k \in 1..Len(order) : order[k] = id

\* the entities that may hold the ball: neither ball nor referee, and less
\* than the threshold away from the ball
Candidates ==
  IF ball = Null THEN {}
  ELSE {id \in DOMAIN playerMap :
          /\ EntityName(id) # "Ball"
          /\ EntityTeam(id) # "Referee"
          /\ DistSq(playerMap[id], playerMap[ball])
               < POSSESSION_THRESHOLD * POSSESSION_THRESHOLD}

\* C8: playerInPossession is the candidate closest to the ball, the first in
\* iteration order among equally close ones, and null when there is no
\* candidate or no ball.
C8_Possession ==
  /\ Candidates = {} => playerInPossession = Null
  /\ Candidates # {}
     => /\ playerInPossession \in Candidates
        /\ \A o \in Candidates :
             \/ DistSq(playerMap[playerInPossession], playerMap[ball])
                  < DistSq(playerMap[o], playerMap[ball])
             \/ /\ DistSq(playerMap[playerInPossession], playerMap[ball])
                     = DistSq(playerMap[o], playerMap[ball])
                /\ OrderIndex(playerInPossession) <= OrderIndex(o)

\* two candidates equally close to the ball, the first in order holds it
C8_Witness ==
  /\ ticks > 0
  /\ \E a, b \in Candidates :
       /\ a # b
       /\ DistSq(playerMap[a], playerMap[ball]) = DistSq(playerMap[b], playerMap[ball])
       /\ playerInPossession = a

C10_ScoreAfterUpdate ==
  lsRead # None
  => /\ lsRead.tick = ticks
     /\ lastUpdate # None /\ lastUpdate.tick = ticks
     /\ lsRead.carrier = playerInPossession
     /\ DOMAIN lsRead.pos = getAllTeamPlayers(playerMap, "Home")
                            \cup getAllTeamPlayers(playerMap, "Away")
     /\ \A id \in DOMAIN lsRead.pos : lsRead.pos[id] = playerMap[id].pos

\* a score computed in a callback whose smoothing moved a player part of the
\* way from the origin, where its mesh was created, to its target
C10_Witness ==
  /\ lsRead # None
  /\ lsRead.tick = ticks
  /\ \E id \in DOMAIN lsRead.pos :
       /\ lsRead.pos[id] # playerMap[id].targetRoot
       /\ lsRead.pos[id] # Vec(0, 0)

----------------------------------------------------------------------------
(* Arithmetic of the scorers.  Scores are counted in ten-thousandths,       *)
(* arguments of exp and angles in thousandths, distances and coordinates    *)
(* in hundredths of a scene unit, speeds in hundredths of a unit per        *)
(* second and times to arrival in thousandths of a second.                  *)

\* the score 1.0
One == 10000

RECURSIVE SqrtSearch(_, _, _)
\* the largest r in lo..hi with r * r <= n
SqrtSearch(n, lo, hi) ==
  IF lo >= hi THEN lo
  ELSE LET mid == (lo + hi + 1) \div 2 IN
       IF mid * mid <= n THEN SqrtSearch(n, mid, hi)
       ELSE SqrtSearch(n, lo, mid - 1)

\* Math.sqrt, rounded down
Sqrt(n) ==
  IF n < 1024 * 1024 THEN SqrtSearch(n, 0, 1023)
  ELSE IF n < 8192 * 8192 THEN SqrtSearch(n, 1024, 8191)
  ELSE SqrtSearch(n, 8192, 46340)

Vec3(x, y, z) == [x |-> x, y |-> y, z |-> z]

\* Vector3.distanceTo
distanceTo(p, q) ==
  Sqrt((p.x - q.x) * (p.x - q.x) + (p.y - q.y) * (p.y - q.y)
       + (p.z - q.z) * (p.z - q.z))

\* e^-k for k = 0..9 and e^-(j/10) for j = 0..9
ExpUnits == << 10000, 3679, 1353, 498, 183, 67, 25, 9, 3, 1 >>

ExpTenths == << 10000, 9048, 8187, 7408, 6703, 6065, 5488, 4966, 4493, 4066 >>

\* Math.exp(-x) for x >= 0 given in thousandths: e^-k * e^-(j/10) * e^-r with
\* e^-r = 1 - r + r^2 / 2 for the remainder r < 0.1
ExpNeg(xm) ==
  IF xm >= 10000 THEN 0
  ELSE LET k == xm \div 1000
           j == (xm % 1000) \div 100
           r == xm % 100
           small == One - 10 * r + (r * r) \div 200
       IN (((ExpUnits[k + 1] * ExpTenths[j + 1]) \div One) * small) \div One

\* 1 / (1 + Math.exp(-z)) for z given in thousandths
Logistic(zm) ==
  IF zm >= 0 THEN (One * One) \div (One + ExpNeg(zm))
  ELSE (One * ExpNeg(-zm)) \div (One + ExpNeg(-zm))

\* Math.tanh(x) for x >= 0 given in thousandths
Tanh(xm) == (One * (One - ExpNeg(2 * xm))) \div (One + ExpNeg(2 * xm))

\* Math.acos at -1.0, -0.9, .., 1.0
AcosTenths == << 3142, 2691, 2498, 2346, 2214, 2094, 1982, 1875, 1772, 1671,
                 1571, 1471, 1369, 1266, 1159, 1047, 927, 795, 644, 451, 0 >>

\* Math.acos of a cosine given in ten-thousandths, interpolated between the
\* entries of the table
Acos(c) ==
  IF c >= One THEN 0
  ELSE IF c <= -One THEN AcosTenths[1]
  ELSE LET i == (c + One) \div 1000
           f == (c + One) % 1000
       IN AcosTenths[i + 1]
          - ((AcosTenths[i + 1] - AcosTenths[i + 2]) * f) \div 1000

Dot3(a, b) == a.x * b.x + a.y * b.y + a.z * b.z

Sub3(a, b) == Vec3(a.x - b.x, a.y - b.y, a.z - b.z)

\* the angle in thousandths of a radian
HalfPi == 1571

\* Vector3.angleTo: acos of the clamped cosine, pi / 2 for a zero vector
angleTo(a, b) ==
  LET la == Sqrt(Dot3(a, a))
      lb == Sqrt(Dot3(b, b))
  IN IF la = 0 \/ lb = 0 THEN HalfPi
     ELSE Acos(((Dot3(a, b) \div la) * One) \div lb)

----------------------------------------------------------------------------
(* utils.js: findClosestPlayer, isPointInTriangle, calculatePolygonArea,    *)
(* getPassingCone.  A player handed to the scorers is a record of its id,   *)
(* role, mesh position, velocity, current speed and inferred flag.          *)

\* stands for the number Infinity; no distance of the model reaches it
Infinity == 1000000000

\* stands for a currentSpeed that is NaN or not a number
NaN == -1

ScorePlayer(id, role, pos, speed) ==
  [id |-> id, role |-> role, pos |-> pos, velocity |-> Vec3(0, 0, 0),
   currentSpeed |-> speed, isInferred |-> FALSE]

RECURSIVE ClosestFrom(_, _, _, _, _)
\* the loop of findClosestPlayer from index i
ClosestFrom(targetPosition, players, i, closestPlayer, minDistance) ==
  IF i > Len(players)
  THEN [player |-> closestPlayer, distance |-> minDistance]
  ELSE LET distance == distanceTo(players[i].pos, targetPosition) IN
       IF distance < minDistance
       THEN ClosestFrom(targetPosition, players, i + 1, players[i].id, distance)
       ELSE ClosestFrom(targetPosition, players, i + 1, closestPlayer,
                        minDistance)

findClosestPlayer(targetPosition, players) ==
  ClosestFrom(targetPosition, players, 1, Null, Infinity)

\* isPointInTriangle on the ground plane: the vertical axis is dropped
isPointInTriangle(p, p0, p1, p2) ==
  LET s == p0.z * p2.x - p0.x * p2.z + (p2.z - p0.z) * p.x
           + (p0.x - p2.x) * p.z
      t == p0.x * p1.z - p0.z * p1.x + (p0.z - p1.z) * p.x
           + (p1.x - p0.x) * p.z
      A == -p1.z * p2.x + p0.z * (p2.x - p1.x) + p0.x * (p1.z - p2.z)
           + p1.x * p2.z
  IN IF ((s < 0) # (t < 0)) /\ s # 0 /\ t # 0 THEN FALSE
     ELSE IF A < 0 THEN s <= 0 /\ s + t >= A
     ELSE s >= 0 /\ s + t <= A

RECURSIVE ShoelaceFrom(_, _)
ShoelaceFrom(corners, i) ==
  IF i > Len(corners) THEN 0
  ELSE LET p1 == corners[i]
           p2 == corners[(i % Len(corners)) + 1]
       IN p1.x * p2.z - p2.x * p1.z + ShoelaceFrom(corners, i + 1)

Abs(a) == IF a < 0 THEN -a ELSE a

calculatePolygonArea(corners) == Abs(ShoelaceFrom(corners, 1)) \div 2

RECURSIVE ConeFrom(_, _, _, _, _, _)
\* the two loops of getPassingCone from the pair (i, j)
ConeFrom(startPoint, quadCorners, i, j, maxAngle, coneCorners) ==
  IF i > Len(quadCorners) THEN coneCorners
  ELSE IF j > Len(quadCorners)
  THEN ConeFrom(startPoint, quadCorners, i + 1, i + 2, maxAngle, coneCorners)
  ELSE LET angle == angleTo(Sub3(quadCorners[i], startPoint),
                            Sub3(quadCorners[j], startPoint))
       IN IF angle > maxAngle
          THEN ConeFrom(startPoint, quadCorners, i, j + 1, angle,
                        << quadCorners[i], quadCorners[j] >>)
          ELSE ConeFrom(startPoint, quadCorners, i, j + 1, maxAngle,
                        coneCorners)

\* the corners are sorted by z (a stable sort of two elements)
getPassingCone(startPoint, quadCorners) ==
  LET coneCorners == ConeFrom(startPoint, quadCorners, 1, 2, -1, << >>)
      sortedCorners ==
        IF Len(coneCorners) > 1
        THEN IF coneCorners[2].z < coneCorners[1].z
             THEN << coneCorners[2], coneCorners[1] >>
             ELSE coneCorners
        ELSE << >>
  IN [points |-> << startPoint >> \o sortedCorners, corners |-> sortedCorners]

----------------------------------------------------------------------------
(* LsCalculator *)

RECURSIVE SumSeq(_, _)
\* reduce((s, v) => s + v, 0) from index i
SumSeq(xs, i) == IF i > Len(xs) THEN 0 ELSE xs[i] + SumSeq(xs, i + 1)

RECURSIVE MinSeq(_, _)
\* Math.min(...xs) from index i; Infinity for no element
MinSeq(xs, i) ==
  IF i > Len(xs) THEN Infinity ELSE Min(xs[i], MinSeq(xs, i + 1))

MapSeq(f(_), xs) == [i \in 1..Len(xs) |-> f(xs[i])]

IdsOf(players) == {players[i].id : i \in 1..Len(players)}

\* sentinel time to arrival (99 s) and minimal effective speed (1.0)
NoArrival == 99000

MIN_EFFECTIVE_SPEED == 100

\* the speed after `if (typeof p.currentSpeed !== "number" ||
\* isNaN(p.currentSpeed)) p.currentSpeed = 0`
FixedSpeed(p) == IF p.currentSpeed = NaN THEN 0 ELSE p.currentSpeed

\* calculateTeamControlMetrics without a carrier position: the times to
\* arrival, the fastest of them, and the players whose currentSpeed it has
\* passed through the NaN repair
calculateTeamControlMetrics(target, players) ==
  IF Len(players) = 0
  THEN [fastestTimeToArrival |-> NoArrival, ttas |-> << >>, touched |-> {}]
  ELSE LET tta(p) == (distanceTo(p.pos, target) * 1000)
                       \div Max(FixedSpeed(p), MIN_EFFECTIVE_SPEED)
           ttas == MapSeq(tta, players)
       IN [fastestTimeToArrival |-> MinSeq(ttas, 1),
           ttas |-> ttas,
           touched |-> IdsOf(players)]

\* the outfield defender that comes last in the list, whatever its x
LastDefenderInListOrder(defenders, attackingDirection, i, lastDefender) ==
  LET outfield == {j \in 1..Len(defenders) : defenders[j].role # "GK"}
  IN IF outfield = {} THEN 0
     ELSE CHOOSE j \in outfield : \A k \in outfield : k <= j

RECURSIVE LastDefenderFrom(_, _, _, _)
\* the loop of calculateStrategicBonus over the defenders from index i:
\* the index of the last defender (0 for none)
LastDefenderFrom(defenders, attackingDirection, i, lastDefender) ==
  IF i > Len(defenders) THEN lastDefender
  ELSE LET def == defenders[i]
           beyond ==
             \/ lastDefender = 0
             \/ IF attackingDirection < 0
                THEN def.pos.x < defenders[lastDefender].pos.x
                ELSE def.pos.x > defenders[lastDefender].pos.x
       IN IF def.role # "GK" /\ beyond
          THEN LastDefenderFrom(defenders, attackingDirection, i + 1, i)
          ELSE LastDefenderFrom(defenders, attackingDirection, i + 1,
                                lastDefender)

\* the race test with ties given to the attackers
AttackersWinRaceOrTie(defTTA, attTTA) == ~(defTTA < attTTA)

\* `if (defTTA <= attTTA) return 0.0` has not returned
AttackersWinRace(defTTA, attTTA) == ~(defTTA <= attTTA)

\* the line test passing wherever the zone lies
IsBehindLineAnywhere(lq, offsideLineX, attackingDirection) == TRUE

\* isBehindLine: the zone's center strictly beyond the offside line
IsBehindLine(lq, offsideLineX, attackingDirection) ==
  IF attackingDirection < 0 THEN lq.center.x < offsideLineX
  ELSE lq.center.x > offsideLineX

\* calculateStrategicBonus: the bonus, with the last defender, the line and
\* the two fastest times it decided on
calculateStrategicBonus(lq, goal, defenders, attackers, attackingDirection) ==
  LET none == [bonus |-> 0, lastDefender |-> Null, offsideLineX |-> 0,
               attTTA |-> NoArrival, defTTA |-> NoArrival, touched |-> {}]
      lastIndex == LastDefenderFrom(defenders, attackingDirection, 1, 0)
  IN IF Len(defenders) = 0 \/ Len(attackers) = 0 \/ attackingDirection = 0
     THEN none
     ELSE IF lastIndex = 0 THEN none
     ELSE LET offsideLineX == defenders[lastIndex].pos.x
              isBehindLine == IsBehindLine(lq, offsideLineX,
                                           attackingDirection)
              att == calculateTeamControlMetrics(lq.center, attackers)
              def == calculateTeamControlMetrics(lq.center, defenders)
              runway == distanceTo(lq.center, goal.position)
              decided == [none EXCEPT !.lastDefender = defenders[lastIndex].id,
                                      !.offsideLineX = offsideLineX]
              raced == [decided EXCEPT
                          !.attTTA = att.fastestTimeToArrival,
                          !.defTTA = def.fastestTimeToArrival,
                          !.touched = att.touched \cup def.touched]
          IN IF ~isBehindLine THEN decided
             ELSE IF ~AttackersWinRace(def.fastestTimeToArrival,
                                       att.fastestTimeToArrival)
             THEN raced
             ELSE [raced EXCEPT
                     !.bonus = (95 * Logistic(((runway - 2000) * 5) \div 2))
                                 \div 100]

MIDPOINT_DISTANCE == 3000

calculateThreatPotential(lq, goal, defenders, attackers, attackingDirection) ==
  LET proximityThreat ==
        Logistic(((MIDPOINT_DISTANCE - distanceTo(lq.center, goal.position))
                    * 5) \div 2)
      strategic == calculateStrategicBonus(lq, goal, defenders, attackers,
                                           attackingDirection)
      strategicThreat == strategic.bonus
      combinedProximityScore == Max(proximityThreat, strategicThreat)
      vectorToGoalCenter == Sub3(goal.position, lq.center)
      forwardVector == Vec3(attackingDirection * 100, 0, 0)
      offCenterAngleRad == angleTo(vectorToGoalCenter, forwardVector)
      goalAngleFactor == ExpNeg((12 * offCenterAngleRad) \div 10)
      areaAmplifier == One + (4 * Logistic((lq.area - 750000) \div 250)) \div 10
      potential == (((7 * combinedProximityScore + 3 * goalAngleFactor) \div 10)
                      * areaAmplifier) \div One
  IN [potential |-> Min(One, potential),
      proximityThreat |-> proximityThreat,
      strategicThreat |-> strategicThreat,
      combinedProximityScore |-> combinedProximityScore,
      goalAngleFactor |-> goalAngleFactor,
      areaAmplifier |-> areaAmplifier,
      strategic |-> strategic]

ANALYSIS_RADIUS == 2000

\* filter(p => p.mesh.position.distanceTo(lq.center) < ANALYSIS_RADIUS)
NearLq(players, lq) ==
  SelectSeq(players,
            LAMBDA p : distanceTo(p.pos, lq.center) < ANALYSIS_RADIUS)

\* attackers.filter(p => p !== carrier && ...): carrier is the fourth
\* parameter of calculateExploitationScore, None when it is not supplied
PotentialReceivers(attackers, lq, carrier) ==
  SelectSeq(attackers,
            LAMBDA p : /\ (carrier = None \/ p.id # carrier.id)
                       /\ distanceTo(p.pos, lq.center) < ANALYSIS_RADIUS)

calculateExploitationScore(lq, defenders, attackers, carrier) ==
  LET defendersNearLq == NearLq(defenders, lq)
      defMetrics == calculateTeamControlMetrics(lq.center, defendersNearLq)
      defFastestTime == IF Len(defendersNearLq) > 0
                        THEN defMetrics.fastestTimeToArrival ELSE NoArrival
      defProb(t) == ExpNeg((4 * t) \div 10)
      defAggProb == IF Len(defendersNearLq) > 0
                    THEN SumSeq(MapSeq(defProb, defMetrics.ttas), 1) ELSE 0
      defRecoveryScore == ExpNeg(defFastestTime \div 10)
      defSwarmScore == (One * One) \div (One + 5 * defAggProb)
      defensiveControl == (6 * defRecoveryScore + 4 * (One - defSwarmScore))
                            \div 10
      potentialReceivers == PotentialReceivers(attackers, lq, carrier)
      attMetrics == calculateTeamControlMetrics(lq.center, potentialReceivers)
      attFastestTime == IF Len(potentialReceivers) > 0
                        THEN attMetrics.fastestTimeToArrival ELSE NoArrival
      attProb(t) == ExpNeg((15 * t) \div 100)
      aggAttSupport == IF Len(potentialReceivers) > 0
                       THEN SumSeq(MapSeq(attProb, attMetrics.ttas), 1) ELSE 0
      attSupportScore == IF Len(potentialReceivers) > 0
                         THEN Tanh(aggAttSupport \div 5) ELSE 0
      overloadScore == Logistic((5 * (aggAttSupport - defAggProb)) \div 10)
      arrivalTimeAdvantage == Max(0, defFastestTime - attFastestTime)
      speedBonus == One + (45 * Tanh(arrivalTimeAdvantage \div 5)) \div 100
      baseAttackingPotential == (6 * attSupportScore + 4 * overloadScore)
                                  \div 10
      exploitationScore == (baseAttackingPotential * (One - defensiveControl))
                             \div One
      finalScore == Min(One, (exploitationScore * speedBonus) \div One)
  IN [finalScore |-> finalScore,
      defFastestTime |-> defFastestTime,
      defRecoveryScore |-> defRecoveryScore,
      defSwarmScore |-> defSwarmScore,
      defensiveControl |-> defensiveControl,
      attFastestTime |-> attFastestTime,
      attSupportScore |-> attSupportScore,
      overloadFactor |-> overloadScore,
      attackingPotential |-> baseAttackingPotential,
      speedBonus |-> speedBonus,
      receivers |-> IdsOf(potentialReceivers),
      touched |-> defMetrics.touched \cup attMetrics.touched]

\* the sentinel of `pressureDist || 99`
NoPressure == 9900

\* `pressureDist || 99`: 0 is falsy, Infinity is not
PressureOr99(pressureDist) ==
  IF pressureDist = 0 THEN NoPressure ELSE pressureDist

calculateFeasibilityScore(lq, carrier, defenders) ==
  LET pressureDist == findClosestPlayer(carrier.pos, defenders).distance
      used == PressureOr99(pressureDist)
      pressureFactor == IF used = Infinity THEN One
                        ELSE Logistic(15 * (used - 300))
      conePoints == getPassingCone(carrier.pos, lq.corners).points
      interceptors ==
        SelectSeq(defenders,
                  LAMBDA def : /\ Len(conePoints) = 3
                               /\ isPointInTriangle(def.pos, conePoints[1],
                                                    conePoints[2],
                                                    conePoints[3]))
      numInterceptors == Len(interceptors)
      obstructionFactor == ExpNeg(300 * numInterceptors)
      passDistFactor == ExpNeg((3 * distanceTo(carrier.pos, lq.center))
                                 \div 10)
      finalScore == (45 * obstructionFactor + 30 * pressureFactor
                     + 25 * passDistFactor) \div 100
  IN [finalScore |-> finalScore,
      pressureDist |-> used,
      pressureFactor |-> pressureFactor,
      numInterceptors |-> numInterceptors,
      obstructionFactor |-> obstructionFactor,
      passDistFactor |-> passDistFactor,
      conePoints |-> conePoints]

\* the players after the call: those handed to calculateTeamControlMetrics
\* have had a NaN currentSpeed overwritten with 0
AfterCall(players, touched) ==
  [i \in 1..Len(players) |->
     IF players[i].id \in touched
     THEN [players[i] EXCEPT !.currentSpeed = FixedSpeed(players[i])]
     ELSE players[i]]

\* isFinite
IsFinite(v) == v # NaN /\ v # Infinity /\ v # -Infinity

\* the score left as K * (raw_ls - 0.5), without the logistic
FinalLsUnsquashed(raw_ls) == 10 * (raw_ls - 5000)

\* final_ls as returned: 1 / (1 + exp(-K * (raw_ls - 0.5))), or 0 when that
\* is not finite
FinalLs(raw_ls) ==
  LET final_ls == Logistic(raw_ls - 5000) IN
  IF IsFinite(final_ls) THEN final_ls ELSE 0

\* lines 27-52 of calculateLs, from the details of the three sub-scores
CombinedLs(threat, exploit, feasy, defenders, attackers) ==
  LET threatPotentialScore == threat.potential
      exploitationScore == exploit.finalScore
      feasibilityScore == feasy.finalScore
      productValue == (threatPotentialScore * exploitationScore) \div One
      averageValue == (threatPotentialScore + exploitationScore) \div 2
      situationValue == (4 * productValue + 6 * averageValue) \div 10
      raw_ls == (situationValue * ((One + feasibilityScore) \div 2)) \div One
      final_ls == FinalLs(raw_ls)
      touched == threat.strategic.touched \cup exploit.touched
  IN [final_ls |-> final_ls,
      threatPotentialScore |-> threatPotentialScore,
      exploitationScore |-> exploitationScore,
      feasibilityScore |-> feasibilityScore,
      threat |-> threat,
      exploit |-> exploit,
      feasy |-> feasy,
      raw_ls |-> raw_ls,
      defendersAfter |-> AfterCall(defenders, touched),
      attackersAfter |-> AfterCall(attackers, touched)]

\* calculateLs: each of the three sub-scores is computed once, then combined
calculateLs(lq, carrier, defenders, attackers, goal, attackingDirection) ==
  CHOOSE scores \in
    {CombinedLs(threatDetails, exploitDetails, feasyDetails, defenders,
                attackers) :
       threatDetails \in {calculateThreatPotential(lq, goal, defenders,
                                                   attackers,
                                                   attackingDirection)},
       exploitDetails \in {calculateExploitationScore(lq, defenders,
                                                      attackers, None)},
       feasyDetails \in {calculateFeasibilityScore(lq, carrier, defenders)}} :
    TRUE

----------------------------------------------------------------------------
(* The scorer harness: calculateLs applied to bounded scenes *)

MaxDefenders == 2    \* defenders of a scene
MaxAttackers == 2    \* attackers of a scene

\* the height of a player mesh and of a zone (Y_OFFSET)
PlayerY == 90

Y_OFFSET == 2

OnPitch(x, z) == Vec3(x, PlayerY, z)

TheCarrier == ScorePlayer("C", "CM", OnPitch(0, 0), 0)

\* defenders: one beyond the zone, a goalkeeper, one on the carrier, one
\* pressing it inside the passing cone, one on the far edge of the cone,
\* one behind the carrier on the line of a side of the cone, and one as far
\* from the zone as the attacker and as fast
DefenderPool ==
  << ScorePlayer("D1", "CB", OnPitch(2500, 0), 500),
     ScorePlayer("D4", "GK", OnPitch(5000, 0), 0),
     ScorePlayer("D5", "CM", OnPitch(0, 0), 300),
     ScorePlayer("D6", "CM", OnPitch(200, 0), 300),
     ScorePlayer("D7", "CM", OnPitch(1500, 0), 300),
     ScorePlayer("D8", "RB", OnPitch(-1500, -500), 300),
     ScorePlayer("D9", "CB", OnPitch(1500, -500), 600) >>

\* attackers: the runner of the end-to-end scenario, the carrier itself
\* (getAllTeamPlayers of the carrier's team holds it), and a team mate
\* without a measured speed
AttackerPool ==
  << ScorePlayer("A1", "CF", OnPitch(1500, 500), 600),
     TheCarrier,
     ScorePlayer("A2", "LW", OnPitch(1000, -800), NaN) >>

\* the members of a pool chosen by a set of indexes, in the pool's order
Chosen(pool, S) == LET idx == SortedSeq(S) IN [i \in 1..Len(idx) |-> pool[idx[i]]]

Lists(pool, n) ==
  {Chosen(pool, S) : S \in {T \in SUBSET (1..Len(pool)) : Cardinality(T) <= n}}

\* a box zone as updateLsVisualizer hands it over: center, corners, area
BoxLq(cx, side) ==
  LET h == side \div 2
      corners == << Vec3(cx - h, Y_OFFSET, -h), Vec3(cx + h, Y_OFFSET, -h),
                    Vec3(cx + h, Y_OFFSET, h), Vec3(cx - h, Y_OFFSET, h) >>
  IN [center |-> Vec3(cx, Y_OFFSET, 0), corners |-> corners,
      area |-> calculatePolygonArea(corners)]

\* PITCH_LENGTH / 2: the goal of the attacked side
GoalX == 5250

GoalOf(attackingDirection) ==
  [position |-> Vec3((IF attackingDirection < 0 THEN -1 ELSE 1) * GoalX, 0, 0)]

\* a zone of side 10 at x = 20 under each attacking direction, and a zone
\* of side 5 next to the carrier, 50 away from the goal at +52.5
LqSettings ==
  {[cx |-> 2000, side |-> 1000, dir |-> d] : d \in {-1, 0, 1}}
  \cup {[cx |-> 250, side |-> 500, dir |-> 1]}

SceneOf(setting, defenders, attackers) ==
  [lq |-> BoxLq(setting.cx, setting.side),
   carrier |-> TheCarrier,
   defenders |-> defenders,
   attackers |-> attackers,
   goal |-> GoalOf(setting.dir),
   attackingDirection |-> setting.dir]

Scenes ==
  {SceneOf(g, d, a) : g \in LqSettings, d \in Lists(DefenderPool, MaxDefenders),
                      a \in Lists(AttackerPool, MaxAttackers)}

\* a list rotated by k places, then reversed or not: every order of a list
\* of up to three
Rotated(xs, k) ==
  [i \in 1..Len(xs) |-> xs[((i - 1 + k) % Len(xs)) + 1]]

Reordered(xs, k, rev) ==
  LET r == Rotated(xs, k) IN
  IF rev THEN [i \in 1..Len(r) |-> r[Len(r) + 1 - i]] ELSE r

otherVars == << frames, playbackClock, isPlaying, isLive, playbackRate,
                playerMap, order, ball, playerInPossession, gapStates,
                isLsMode, zones, created, ticks, lastUpdate, lastSeen,
                lsRead >>

InitOther ==
  /\ frames = << >>
  /\ playbackClock = 0
  /\ isPlaying = FALSE
  /\ isLive = FALSE
  /\ playbackRate = 2
  /\ playerMap = << >>
  /\ order = << >>
  /\ ball = Null
  /\ playerInPossession = Null
  /\ gapStates = << >>
  /\ isLsMode = FALSE
  /\ zones = 0
  /\ created = 0
  /\ ticks = 0
  /\ lastUpdate = None
  /\ lastSeen = << >>
  /\ lsRead = None

\* calculateLs applied to the scene with its lists in some order
CalculateLs(kd, rd, ka, ra) ==
  /\ query.op = "scene"
  /\ kd < Max(1, Len(query.scene.defenders))
  /\ ka < Max(1, Len(query.scene.attackers))
  /\ rd => Len(query.scene.defenders) >= 3
  /\ ra => Len(query.scene.attackers) >= 3
  /\ LET sc == query.scene
         defenders == Reordered(sc.defenders, kd, rd)
         attackers == Reordered(sc.attackers, ka, ra)
     IN query' = [op |-> "ls", scene |-> sc,
                  defenders |-> defenders, attackers |-> attackers,
                  result |-> calculateLs(sc.lq, sc.carrier, defenders,
                                         attackers, sc.goal,
                                         sc.attackingDirection)]
  /\ UNCHANGED otherVars

InitScore ==
  /\ query \in {[op |-> "scene", scene |-> sc] : sc \in Scenes}
  /\ InitOther

NextScore ==
  \E kd \in 0..(MaxDefenders - 1), ka \in 0..(MaxAttackers - 1),
     rd, ra \in BOOLEAN :
    CalculateLs(kd, rd, ka, ra)

SpecScore == InitScore /\ [][NextScore]_vars

----------------------------------------------------------------------------
(* Properties of the scorer *)

Scored == query # None /\ query.op = "ls"

\* C11: calculateLs leaves every player's position, velocity, current speed
\* and inferred flag as they were, whatever its inputs.
C11_PlayersUnchanged ==
  Scored => /\ query.result.defendersAfter = query.defenders
            /\ query.result.attackersAfter = query.attackers

\* the ids of the attackers other than the carrier within the analysis
\* radius of the zone's center
ReceiversWithoutCarrier(sc) ==
  {sc.attackers[i].id : i \in {j \in 1..Len(sc.attackers) :
      /\ sc.attackers[j].id # sc.carrier.id
      /\ distanceTo(sc.attackers[j].pos, sc.lq.center) < ANALYSIS_RADIUS}}

\* C12: the attacking side of the exploitation score is computed over the
\* attackers within the 20-unit radius other than the carrier, also when the
\* attackers list holds the carrier.
C12_CarrierExcluded ==
  Scored => query.result.exploit.receivers = ReceiversWithoutCarrier(query.scene)

\* time to arrival of a player at the zone's center, in milliseconds
ArrivalTime(p, lq) ==
  (distanceTo(p.pos, lq.center) * 1000)
    \div Max(FixedSpeed(p), MIN_EFFECTIVE_SPEED)

Members(xs) == {xs[i] : i \in 1..Len(xs)}

Outfield(defenders) == {d \in Members(defenders) : d.role # "GK"}

\* the four conditions of the strategic bonus, read off the arguments
BothSidesAndDirection(defenders, attackers, attackingDirection) ==
  Len(defenders) > 0 /\ Len(attackers) > 0 /\ attackingDirection # 0

ZoneBeyondLastDefender(lq, defenders, attackingDirection) ==
  /\ Outfield(defenders) # {}
  /\ \A d \in Outfield(defenders) :
       IF attackingDirection < 0 THEN lq.center.x < d.pos.x
       ELSE lq.center.x > d.pos.x

AttackersArriveFirst(lq, defenders, attackers) ==
  \E a \in Members(attackers) :
    \A d \in Members(defenders) : ArrivalTime(d, lq) > ArrivalTime(a, lq)

\* C13: the strategic bonus is 0 unless both lists are non-empty and a
\* direction is given, a non-goalkeeper last defender exists, the zone's
\* center lies strictly beyond that defender's x in the attacking direction,
\* and the fastest defender arrival strictly exceeds the fastest attacker
\* arrival; with no defenders and no attackers it is exactly 0.
C13_BonusConditions ==
  Scored =>
    LET bonus == query.result.threat.strategicThreat IN
    /\ bonus # 0 =>
         /\ BothSidesAndDirection(query.defenders, query.attackers,
                                  query.scene.attackingDirection)
         /\ ZoneBeyondLastDefender(query.scene.lq, query.defenders,
                                   query.scene.attackingDirection)
         /\ AttackersArriveFirst(query.scene.lq, query.defenders,
                                 query.attackers)
    /\ (Len(query.defenders) = 0 /\ Len(query.attackers) = 0) => bonus = 0

\* a bonus is granted with a goalkeeper among two defenders
C13_Witness ==
  /\ Scored
  /\ query.result.threat.strategicThreat > 0
  /\ Len(query.defenders) = 2
  /\ Outfield(query.defenders) # Members(query.defenders)

\* the end-to-end scenario: carrier at (0,0), zone of area 100 centered at
\* (20,0), goal at (52.5,0), direction +1, attacker at (15,5) with speed 6
\* and one defender with speed 5
ScenarioLq == BoxLq(2000, 1000)

ScenarioAttackers == << AttackerPool[1] >>

DefenderAt25 == << DefenderPool[1] >>

DefenderAt40 == << ScorePlayer("D2", "CB", OnPitch(4000, 0), 500) >>

ScenarioScored(defenders) ==
  /\ Scored
  /\ query.scene.lq = ScenarioLq
  /\ query.scene.attackingDirection = 1
  /\ query.attackers = ScenarioAttackers
  /\ query.defenders = defenders

ScenarioThreat(defenders) ==
  calculateLs(ScenarioLq, TheCarrier, defenders, ScenarioAttackers,
              GoalOf(1), 1).threatPotentialScore

\* C14 as stated: in the end-to-end scenario threatPotentialScore is
\* strictly greater with the defender at (40,0) than at (25,0).
C14_Original ==
  ScenarioScored(DefenderAt25)
    => ScenarioThreat(DefenderAt40) > query.result.threatPotentialScore

\* C14: in the end-to-end scenario threatPotentialScore is the same with
\* the defender at (40,0) as at (25,0): the zone at x = 20 is beyond neither
\* defender, so no strategic bonus is granted in either case.
C14_SameThreat ==
  ScenarioScored(DefenderAt25)
    => /\ ScenarioThreat(DefenderAt40) = query.result.threatPotentialScore
       /\ query.result.threat.strategicThreat = 0

C14_Witness ==
  /\ ScenarioScored(DefenderAt25)
  /\ query.result.final_ls > 0
  /\ query.result.final_ls < One
  /\ query.result.threat.strategic.lastDefender = "D1"

\* threatPotentialScore for the zone of side 5 centered at (cx, 0) under
\* direction +1, all else as in the call of the state
ThreatAt(cx) ==
  calculateLs(BoxLq(cx, 500), query.scene.carrier, query.defenders,
              query.attackers, GoalOf(1), 1).threatPotentialScore

\* C15: all else fixed, the threat potential does not decrease as the
\* distance from the zone's center to the goal goes from 50 to 30 to 10,
\* also when the strategic bonus is active.
C15_CloserIsNoLessThreatening ==
  (Scored /\ query.scene.lq = BoxLq(250, 500))
    => /\ query.result.threatPotentialScore <= ThreatAt(2250)
       /\ ThreatAt(2250) <= ThreatAt(4250)

\* C16: the final score lies in [0, 1] for every configuration, and is
\* reported as 0 whenever the computed value is not finite.
C16_FinalScoreInUnitInterval ==
  Scored =>
    /\ query.result.final_ls >= 0
    /\ query.result.final_ls <= One
    /\ ~IsFinite(Logistic(query.result.raw_ls - 5000))
         => query.result.final_ls = 0

\* a likely leak and an unlikely one: scores on both sides of one half
C16_Witness ==
  /\ Scored
  /\ query.result.final_ls > 5000
  /\ calculateLs(query.scene.lq, query.scene.carrier, << >>, << >>,
                 query.scene.goal, query.scene.attackingDirection).final_ls
       < 5000

\* what a call reports and decides: the final score, the three sub-scores,
\* the offside line and bonus, the two fastest arrivals, the interceptors
Reported(r) ==
  << r.final_ls, r.threatPotentialScore, r.exploitationScore,
     r.feasibilityScore, r.threat.strategic.offsideLineX,
     r.threat.strategicThreat, r.threat.strategic.attTTA,
     r.threat.strategic.defTTA, r.exploit.attFastestTime,
     r.exploit.defFastestTime, r.feasy.numInterceptors >>

NearestDefender(carrier, defenders) ==
  MinSeq([i \in 1..Len(defenders) |->
            distanceTo(defenders[i].pos, carrier.pos)], 1)

PressureFactorWith(defenders) ==
  calculateFeasibilityScore(query.scene.lq, query.scene.carrier,
                            defenders).pressureFactor

\* C18: the pressure distance used and reported is the distance from the
\* carrier to the nearest defender whenever there is a defender, also when
\* that distance is exactly 0, and is the sentinel 99 exactly when there is
\* none; the pressure factor never increases when the nearest defender gets
\* closer.
C18_PressureDistance ==
  Scored =>
    /\ Len(query.defenders) > 0
         => query.result.feasy.pressureDist
              = NearestDefender(query.scene.carrier, query.defenders)
    /\ Len(query.defenders) = 0
         <=> query.result.feasy.pressureDist = NoPressure
    /\ \A closer \in Lists(DefenderPool, MaxDefenders) :
         (/\ Len(closer) > 0
          /\ Len(query.defenders) > 0
          /\ NearestDefender(query.scene.carrier, closer)
               <= NearestDefender(query.scene.carrier, query.defenders))
           => PressureFactorWith(closer) <= query.result.feasy.pressureFactor

\* twice the signed area of the triangle a, b, p on the ground plane
Cross(a, b, p) == (b.x - a.x) * (p.z - a.z) - (b.z - a.z) * (p.x - a.x)

\* p lies strictly inside the triangle a, b, c: strictly on the same side of
\* its three edges
StrictlyInside(p, a, b, c) ==
  \/ Cross(a, b, p) > 0 /\ Cross(b, c, p) > 0 /\ Cross(c, a, p) > 0
  \/ Cross(a, b, p) < 0 /\ Cross(b, c, p) < 0 /\ Cross(c, a, p) < 0

InsideCone(def, conePoints) ==
  /\ Len(conePoints) = 3
  /\ StrictlyInside(def.pos, conePoints[1], conePoints[2], conePoints[3])

\* C19: the interceptor count is the number of defenders strictly inside the
\* passing-cone triangle; a defender on an edge, on the line through the
\* carrier and a cone corner outside the triangle, or elsewhere outside is
\* not counted.
C19_InterceptorsStrictlyInside ==
  Scored =>
    query.result.feasy.numInterceptors
      = Cardinality({i \in 1..Len(query.defenders) :
                       InsideCone(query.defenders[i],
                                  query.result.feasy.conePoints)})

----------------------------------------------------------------------------
(* The triangle harness: isPointInTriangle on a grid *)

MaxCoord == 2    \* vertices lie on {0, 3, .., 3 * MaxCoord} squared

Ground(x, z) == Vec3(x, 0, z)

\* multiples of 3, so that the centroid of three vertices is a grid point
VertexCoords == {3 * i : i \in 0..MaxCoord}

QueryCoords == {3 * i : i \in (-1)..(MaxCoord + 1)}

Vertices == {Ground(x, z) : x, z \in VertexCoords}

QueryPoints == {Ground(x, z) : x, z \in QueryCoords}

Centroid(p0, p1, p2) ==
  Ground((p0.x + p1.x + p2.x) \div 3, (p0.z + p1.z + p2.z) \div 3)

\* isPointInTriangle applied to the triangle of the state and a point
PointInTriangle(p) ==
  /\ query.op = "triangle"
  /\ p \in QueryPoints \cup {Centroid(query.p0, query.p1, query.p2)}
  /\ query' = [op |-> "point", p0 |-> query.p0, p1 |-> query.p1,
               p2 |-> query.p2, p |-> p,
               inside |-> isPointInTriangle(p, query.p0, query.p1, query.p2)]
  /\ UNCHANGED otherVars

InitTri ==
  /\ query \in {[op |-> "triangle", p0 |-> a, p1 |-> b, p2 |-> c] :
                  a, b, c \in Vertices}
  /\ InitOther

NextTri ==
  \E x, z \in (-3)..(3 * MaxCoord + 3) : PointInTriangle(Ground(x, z))

SpecTri == InitTri /\ [][NextTri]_vars

PointAsked == query # None /\ query.op = "point"

\* the three vertices are not on one line
NonDegenerate(p0, p1, p2) == Cross(p0, p1, p2) # 0

OutsideBox(p, p0, p1, p2) ==
  \/ p.x < Min(p0.x, Min(p1.x, p2.x))
  \/ p.x > Max(p0.x, Max(p1.x, p2.x))
  \/ p.z < Min(p0.z, Min(p1.z, p2.z))
  \/ p.z > Max(p0.z, Max(p1.z, p2.z))

\* C20: for every non-degenerate triangle, in either winding order,
\* isPointInTriangle is true for the centroid and false for every point
\* outside the triangle's bounding box.
C20_CentroidInOutsideBoxOut ==
  (PointAsked /\ NonDegenerate(query.p0, query.p1, query.p2)) =>
    /\ query.p = Centroid(query.p0, query.p1, query.p2) => query.inside
    /\ OutsideBox(query.p, query.p0, query.p1, query.p2) => ~query.inside

\* C21: for every degenerate triangle (coincident or collinear vertices)
\* isPointInTriangle is false for every query point, a vertex included.
C21_DegenerateContainsNothing ==
  (PointAsked /\ ~NonDegenerate(query.p0, query.p1, query.p2))
    => ~query.inside

----------------------------------------------------------------------------
(* DataExporterUI.js: staging a packet, saving it under a label, and the    *)
(* feature-extraction request whose response the save awaits.  The module's *)
(* state (collectedEntries, labelCounts, stagedPacket), the saves awaiting  *)
(* a response and the outcome of the last response are the fields of query. *)

MaxPackets == 2    \* packets staged in a run
MaxSaves == 2      \* label clicks that find a staged packet

\* stagedPacket = null
NoPacket == 0

LabelTypes == {"LQ_CC", "LQ_noCC", "LQ_no_pass", "negative"}

collectedEntries == query.collectedEntries

labelCounts == query.labelCounts

stagedPacket == query.stagedPacket

\* the calls of handleSave suspended at `await getFeaturesFromPython`
pendingSaves == query.pending

\* what the fetch can come back with: no connection, or a response with its
\* ok flag, the success flag of its body and the features of its body
Response(c, o, s, f) ==
  [connected |-> c, ok |-> o, success |-> s, features |-> f]

Responses ==
  {Response(FALSE, FALSE, FALSE, "undefined"),
   Response(TRUE, FALSE, FALSE, "undefined"),
   Response(TRUE, FALSE, TRUE, "features"),
   Response(TRUE, TRUE, FALSE, "undefined"),
   Response(TRUE, TRUE, TRUE, "undefined"),
   Response(TRUE, TRUE, TRUE, "features")}

\* getFeaturesFromPython: the features of a successful response, else null
getFeaturesFromPython(response) ==
  IF ~response.connected THEN Null
  ELSE IF ~response.ok THEN Null
  ELSE IF response.success THEN response.features
  ELSE Null

Falsy(v) == v \in {Null, "undefined"}

\* the save accepting whatever came back
processStagedPacketUnchecked(call, response) ==
  [packet |-> call.packet, label_type |-> call.labelType,
   numerical_features |-> response.features]

\* processStagedPacket after its await: null when the extraction failed,
\* else the final data object
processStagedPacket(call, response) ==
  LET allNumericalFeatures == getFeaturesFromPython(response) IN
  IF Falsy(allNumericalFeatures) THEN None
  ELSE [packet |-> call.packet, label_type |-> call.labelType,
        numerical_features |-> allNumericalFeatures]

Exporter(entries, counts, staged, pending, made, saves, step) ==
  [op |-> "exporter", collectedEntries |-> entries, labelCounts |-> counts,
   stagedPacket |-> staged, pending |-> pending, made |-> made,
   saves |-> saves, step |-> step]

\* how a request ended, as getFeaturesFromPython tells the cases apart
Outcome(response) ==
  IF ~response.connected THEN "connection error"
  ELSE IF ~response.ok THEN "response not ok"
  ELSE IF ~response.success THEN "no success"
  ELSE IF response.features = "undefined" THEN "no features"
  ELSE "success"

\* the last step when it was not the end of a save
OtherStep == [kind |-> "other", call |-> 0, outcome |-> "none"]

\* stageEntry, called by handleMouseUp with a new packet
stageEntry ==
  /\ query.made < MaxPackets
  /\ query' = Exporter(collectedEntries, labelCounts, query.made + 1,
                       pendingSaves, query.made + 1, query.saves,
                       OtherStep)
  /\ UNCHANGED otherVars

\* clearStagingArea, from the Cancel button
clearStagingArea ==
  /\ stagedPacket # NoPacket
  /\ query' = Exporter(collectedEntries, labelCounts, NoPacket, pendingSaves,
                       query.made, query.saves,
                       OtherStep)
  /\ UNCHANGED otherVars

\* handleSave up to its await: the request for the staged packet is sent
handleSave(labelType) ==
  /\ stagedPacket # NoPacket
  /\ query.saves < MaxSaves
  /\ LET call == [id |-> query.saves + 1, packet |-> stagedPacket,
                  labelType |-> labelType]
     IN query' = Exporter(collectedEntries, labelCounts, stagedPacket,
                          pendingSaves \cup {call}, query.made,
                          query.saves + 1,
                          OtherStep)
  /\ UNCHANGED otherVars

\* handleSave from the response on: addEntryAndUpdateCounts when there is a
\* final data object, then clearStagingArea
handleSaveResumed(call, response) ==
  /\ call \in pendingSaves
  /\ LET finalDataObject == processStagedPacket(call, response)
         stored == finalDataObject # None
         entries == IF stored THEN Append(collectedEntries, finalDataObject)
                    ELSE collectedEntries
         counts == IF stored /\ call.labelType \in DOMAIN labelCounts
                   THEN [labelCounts EXCEPT ![call.labelType] = @ + 1]
                   ELSE labelCounts
     IN query' = Exporter(entries, counts, NoPacket, pendingSaves \ {call},
                          query.made, query.saves,
                          [kind |-> "response", call |-> call.id,
                           outcome |-> Outcome(response)])
  /\ UNCHANGED otherVars

InitExp ==
  /\ query = Exporter(<< >>, [l \in LabelTypes |-> 0], NoPacket, {}, 0, 0,
                      OtherStep)
  /\ InitOther

NextExp ==
  \/ stageEntry
  \/ clearStagingArea
  \/ \E labelType \in LabelTypes : handleSave(labelType)
  \/ \E call \in pendingSaves, response \in Responses :
       handleSaveResumed(call, response)

SpecExp == InitExp /\ [][NextExp]_vars

\* the step taken is the end of a save
SaveEnded == query'.step.kind = "response" /\ query' # query

SaveFailed == SaveEnded /\ query'.step.outcome # "success"

\* C22: when the feature-extraction call fails (no connection, a response
\* that is not ok, or one without success) the save adds nothing:
\* collectedEntries and the label counts are unchanged, and no request is
\* sent again.
C22_FailedSaveAddsNothing ==
  [][SaveFailed => /\ query'.collectedEntries = collectedEntries
                   /\ query'.labelCounts = labelCounts
                   /\ query'.pending \subseteq pendingSaves
                   /\ query'.saves = query.saves]_vars

\* a save has failed after another one had stored its entry
C22_Witness ==
  /\ query # None
  /\ query.op = "exporter"
  /\ query.step.kind = "response"
  /\ query.step.outcome = "response not ok"
  /\ Len(collectedEntries) = 1

EntriesOf(packet) ==
  {i \in 1..Len(collectedEntries) : collectedEntries[i].packet = packet}

\* C26: each staged packet produces at most one collected entry, however
\* many label buttons are clicked while its request is pending.
C26_OneEntryPerPacket ==
  (query # None /\ query.op = "exporter")
    => \A packet \in 1..query.made : Cardinality(EntriesOf(packet)) <= 1

\* the save that ended with the step taken
EndedSave == CHOOSE call \in pendingSaves : call.id = query'.step.call

\* C27: a packet staged while an earlier packet's save awaits its response
\* is still staged when that save completes.
C27_LaterPacketStaysStaged ==
  [][(/\ SaveEnded
      /\ stagedPacket # NoPacket
      /\ stagedPacket # EndedSave.packet)
       => query'.stagedPacket = stagedPacket]_vars

----------------------------------------------------------------------------
(* MatchDataLoader._process and the filling of the buffer *)

MaxRawFrames == 2    \* raw frames of a tracking file

NoFrameNumber == -1  \* rawFrame.frame === undefined

BallObject == 55

\* trackableObjectMap.get(trackable_object): the entity id, or Null for an
\* object the metadata does not name
trackableObjectMap(obj) ==
  IF obj = BallObject THEN "Ball" ELSE IF obj = 7 THEN "P1" ELSE Null

Tracked(obj, x, y) == [trackable_object |-> obj, x |-> x, y |-> y]

RawData == {<< >>, << Tracked(99, 1, 1) >>, << Tracked(BallObject, 0, 0) >>,
            << Tracked(7, 1, 2), Tracked(99, 3, 3), Tracked(BallObject, 0, 0) >>}

RawFrames == {[frame |-> n, data |-> d] : n \in {NoFrameNumber, 0, 1, 2},
                                          d \in RawData}

TrackingInputs == UNION {[1..k -> RawFrames] : k \in 0..MaxRawFrames}

RECURSIVE PlayersInFrame(_, _)
\* the loop over rawFrame.data from index i
PlayersInFrame(data, i) ==
  IF i > Len(data) THEN << >>
  ELSE LET entityId == trackableObjectMap(data[i].trackable_object) IN
       IF entityId # Null
       THEN << Sample(entityId, data[i].x * 100, (-data[i].y) * 100) >>
              \o PlayersInFrame(data, i + 1)
       ELSE PlayersInFrame(data, i + 1)

\* the map callback of _process: a processed frame, or None
ProcessFrame(rawFrame) ==
  IF Len(rawFrame.data) = 0 \/ rawFrame.frame = NoFrameNumber THEN None
  ELSE LET playersInFrame == PlayersInFrame(rawFrame.data, 1) IN
       IF Len(playersInFrame) = 0 THEN None
       ELSE [frame_num |-> rawFrame.frame,
             frame_time_ms |-> FrameTime(rawFrame.frame),
             players |-> playersInFrame]

RECURSIVE ProcessFrom(_, _)
\* trackingData.map(...).filter(frame => frame !== null) from index i
ProcessFrom(trackingData, i) ==
  IF i > Len(trackingData) THEN << >>
  ELSE LET frame == ProcessFrame(trackingData[i]) IN
       IF frame = None THEN ProcessFrom(trackingData, i + 1)
       ELSE << frame >> \o ProcessFrom(trackingData, i + 1)

_process(trackingData) == ProcessFrom(trackingData, 1)

RECURSIVE PushAll(_, _, _)
\* allFrames.forEach(frame => buffer.push(frame.players, {videoTime: ...}))
PushAll(buf, allFrames, i) ==
  IF i > Len(allFrames) THEN buf
  ELSE PushAll(Append(buf, Frame(allFrames[i].frame_time_ms,
                                 allFrames[i].players)),
               allFrames, i + 1)

\* load() and the start of the application: the buffer is filled
LoadMatch ==
  /\ query.op = "tracking file"
  /\ query' = [op |-> "loaded", trackingData |-> query.trackingData,
               frames |-> PushAll(<< >>, _process(query.trackingData), 1)]
  /\ UNCHANGED otherVars

InitLoad ==
  /\ query \in {[op |-> "tracking file", trackingData |-> td, frames |-> << >>] :
                  td \in TrackingInputs}
  /\ InitOther

NextLoad == LoadMatch

SpecLoad == InitLoad /\ [][NextLoad]_vars

Loaded == query # None /\ query.op = "loaded"

\* C23: after loading any raw tracking input and pushing the resulting
\* frames, the frames of the buffer are sorted ascending by timestamp and
\* every retained frame has at least one entity sample.
C23_LoadedSortedNonEmpty ==
  Loaded => /\ Sorted(query.frames)
            /\ \A i \in 1..Len(query.frames) : Len(query.frames[i].players) >= 1

----------------------------------------------------------------------------
(* FeatureCalculator: features of the whole roster; x and z in hundredths *)

MaxAwayPlayers == 5   \* players of the away team in a roster

LINE_SIZE == 4

RosterPlayer(id, team, role, x, z) ==
  [id |-> id, team |-> team, role |-> role, x |-> x, z |-> z]

\* the home team's entries, the ball and a referee, in every roster
FixedRoster ==
  << RosterPlayer("Ball", "Ball", "BALL", 0, 0),
     RosterPlayer("H1", "Home", "GK", -5000, 0),
     RosterPlayer("H2", "Home", "CF", 2000, 300),
     RosterPlayer("R1", "Referee", "REF", 500, 500) >>

AwayPool ==
  << RosterPlayer("W1", "Away", "GK", 5000, 0),
     RosterPlayer("W2", "Away", "CB", 4000, -500),
     RosterPlayer("W3", "Away", "CB", 3500, 500),
     RosterPlayer("W4", "Away", "LB", 3000, -2000),
     RosterPlayer("W5", "Away", "RB", 3000, 2000),
     RosterPlayer("W6", "Away", "CM", 1000, 0),
     RosterPlayer("W7", "Away", "CF", -2000, 0) >>

RECURSIVE Picked(_, _, _)
\* the entries of a pool whose index is in S, in the order of the pool
Picked(pool, S, i) ==
  IF i > Len(pool) THEN << >>
  ELSE (IF i \in S THEN << pool[i] >> ELSE << >>) \o Picked(pool, S, i + 1)

Rosters ==
  {FixedRoster \o Picked(AwayPool, S, 1) :
     S \in {T \in SUBSET (1..Len(AwayPool)) : Cardinality(T) <= MaxAwayPlayers}}

RECURSIVE TeamPlayersFrom(_, _, _)
\* the loop of getAllTeamPlayers over playerMap.values() from index i
TeamPlayersFrom(players, teamName, i) ==
  IF i > Len(players) THEN << >>
  ELSE (IF /\ players[i].team = teamName
           /\ players[i].role # "BALL"
           /\ players[i].role # "REF"
        THEN << players[i] >> ELSE << >>)
       \o TeamPlayersFrom(players, teamName, i + 1)

\* getAllTeamPlayers(teamName), in the order of playerMap
TeamPlayersInOrder(players, teamName) == TeamPlayersFrom(players, teamName, 1)

Xs(players) == [i \in 1..Len(players) |-> players[i].x]

Zs(players) == [i \in 1..Len(players) |-> players[i].z]

RECURSIVE MaxOf(_, _)
MaxOf(xs, i) == IF i = Len(xs) THEN xs[i] ELSE Max(xs[i], MaxOf(xs, i + 1))

RECURSIVE MinOf(_, _)
MinOf(xs, i) == IF i = Len(xs) THEN xs[i] ELSE Min(xs[i], MinOf(xs, i + 1))

\* sums divided by the number of players, rounded down to a hundredth
getTeamCentroid(players) ==
  IF Len(players) = 0 THEN [x |-> 0, z |-> 0]
  ELSE [x |-> SumSeq(Xs(players), 1) \div Len(players),
        z |-> SumSeq(Zs(players), 1) \div Len(players)]

getTeamShape(players) ==
  IF Len(players) < 2 THEN [width |-> 0, depth |-> 0]
  ELSE [depth |-> MaxOf(Xs(players), 1) - MinOf(Xs(players), 1),
        width |-> MaxOf(Zs(players), 1) - MinOf(Zs(players), 1)]

\* Math.abs(p.mesh.position.x - attackingDirection * 52.5)
DistToGoalLine(p, attackingDirection) == Abs(p.x - attackingDirection * GoalX)

RECURSIVE InsertByDistance(_, _, _, _)
\* p placed behind every entry that is not farther than p (a stable sort)
InsertByDistance(sorted, p, attackingDirection, i) ==
  IF i > Len(sorted) THEN Append(sorted, p)
  ELSE IF DistToGoalLine(sorted[i], attackingDirection)
            <= DistToGoalLine(p, attackingDirection)
       THEN InsertByDistance(sorted, p, attackingDirection, i + 1)
       ELSE SubSeq(sorted, 1, i - 1) \o << p >> \o SubSeq(sorted, i, Len(sorted))

RECURSIVE SortByDistance(_, _, _)
\* [...defenders].sort(...) : the first n defenders sorted
SortByDistance(defenders, attackingDirection, n) ==
  IF n = 0 THEN << >>
  ELSE InsertByDistance(SortByDistance(defenders, attackingDirection, n - 1),
                        defenders[n], attackingDirection, 1)

getDefensiveLineMetrics(defenders, attackingDirection) ==
  IF Len(defenders) = 0 THEN [line_depth |-> 0, line_players |-> << >>]
  ELSE LET sortedDefenders ==
             SortByDistance(defenders, attackingDirection, Len(defenders))
           linePlayers ==
             SubSeq(sortedDefenders, 1, Min(LINE_SIZE, Len(sortedDefenders)))
       IN [line_depth |-> SumSeq(Xs(linePlayers), 1) \div Len(linePlayers),
           line_players |-> linePlayers]

\* Math.sqrt(dx * dx + dz * dz) from the ideal center of the line
DistanceFromCenter(def, cx, cz) ==
  Sqrt((def.x - cx) * (def.x - cx) + (def.z - cz) * (def.z - cz))

getFormationDisruption(allDefenders, defensiveLine) ==
  IF Len(defensiveLine.line_players) < 2 \/ Len(allDefenders) < 2
  THEN [disruption_index |-> 0]
  ELSE LET idealCenterZ == SumSeq(Zs(defensiveLine.line_players), 1)
                             \div Len(defensiveLine.line_players)
           distances == [i \in 1..Len(allDefenders) |->
                           DistanceFromCenter(allDefenders[i],
                                              defensiveLine.line_depth,
                                              idealCenterZ)]
           meanDistance == SumSeq(distances, 1) \div Len(distances)
           squares == [i \in 1..Len(distances) |->
                         (distances[i] - meanDistance)
                           * (distances[i] - meanDistance)]
       IN [disruption_index |-> Sqrt(SumSeq(squares, 1) \div Len(distances))]

GlobalFeatures(attackers, defenders, line) ==
  [attack_centroid_x |-> getTeamCentroid(attackers).x,
   attack_centroid_z |-> getTeamCentroid(attackers).z,
   defend_centroid_x |-> getTeamCentroid(defenders).x,
   defend_centroid_z |-> getTeamCentroid(defenders).z,
   attack_width |-> getTeamShape(attackers).width,
   attack_depth |-> getTeamShape(attackers).depth,
   defend_width |-> getTeamShape(defenders).width,
   defend_depth |-> getTeamShape(defenders).depth,
   defensive_line_depth |-> line.line_depth,
   formation_disruption_index |->
     getFormationDisruption(defenders, line).disruption_index]

DefendingTeamName(attackingTeamName) ==
  IF attackingTeamName = "Home" THEN "Away" ELSE "Home"

DefensiveLineOf(players, attackingTeamName, attackingDirection) ==
  getDefensiveLineMetrics(
    TeamPlayersInOrder(players, DefendingTeamName(attackingTeamName)),
    -attackingDirection)

calculateGlobalFeatures(players, attackingTeamName, attackingDirection) ==
  GlobalFeatures(
    TeamPlayersInOrder(players, attackingTeamName),
    TeamPlayersInOrder(players, DefendingTeamName(attackingTeamName)),
    DefensiveLineOf(players, attackingTeamName, attackingDirection))

\* the features of a roster are computed; the players of the line are kept
\* next to them
CalculateGlobalFeatures ==
  /\ query.op = "roster"
  /\ query' = [op |-> "features", players |-> query.players,
               attackingTeamName |-> query.attackingTeamName,
               attackingDirection |-> query.attackingDirection,
               line_players |->
                 DefensiveLineOf(query.players, query.attackingTeamName,
                                 query.attackingDirection).line_players,
               features |->
                 calculateGlobalFeatures(query.players, query.attackingTeamName,
                                         query.attackingDirection)]
  /\ UNCHANGED otherVars

InitFeat ==
  /\ query \in {[op |-> "roster", players |-> ps, attackingTeamName |-> team,
                 attackingDirection |-> dir, line_players |-> << >>,
                 features |-> None] :
                  ps \in Rosters, team \in {"Home", "Away"}, dir \in {-1, 1}}
  /\ InitOther

NextFeat == CalculateGlobalFeatures

SpecFeat == InitFeat /\ [][NextFeat]_vars

FeaturesComputed == query # None /\ query.op = "features"

\* the outfield players of the defending team
OutfieldDefenders ==
  {p \in Members(query.players) :
     /\ p.team = DefendingTeamName(query.attackingTeamName)
     /\ p.role \notin {"GK", "BALL", "REF"}}

\* the defending team's own goal is the one the attackers play towards
DistToOwnGoal(p) == Abs(p.x - query.attackingDirection * GoalX)

\* L holds min(4, n) outfield defenders, none farther from the own goal than
\* an outfield defender left out
ClosestToOwnGoal(L) ==
  /\ L \subseteq OutfieldDefenders
  /\ Cardinality(L) = Min(LINE_SIZE, Cardinality(OutfieldDefenders))
  /\ \A p \in L, q \in OutfieldDefenders \ L : DistToOwnGoal(p) <= DistToOwnGoal(q)

\* C24: the defensive line of calculateGlobalFeatures consists of the (up
\* to) 4 outfield players of the defending team closest to that team's own
\* goal, never holds a goalkeeper, and defensive_line_depth is the mean x
\* of exactly those players.
C24_LineOfDeepestOutfield ==
  FeaturesComputed =>
    LET L == Members(query.line_players) IN
    /\ \A p \in L : p.role # "GK"
    /\ ClosestToOwnGoal(L)
    /\ Len(query.line_players) > 0 =>
         query.features.defensive_line_depth
           = SumSeq(Xs(query.line_players), 1) \div Len(query.line_players)

----------------------------------------------------------------------------
(* findNextAppearance on sorted buffers *)

AppTimes == {0, 100, 600100, 600200}

AppPlayers == {<< Sample("P1", 100, 0) >>, << BallAtOrigin >>,
               << Sample("P1", 200, 0), BallAtOrigin >>}

AppFrames == {Frame(t, ps) : t \in AppTimes, ps \in AppPlayers}

\* buffers as the loader of a time-ordered file leaves them
AppInputs ==
  {fr \in UNION {[1..k -> AppFrames] : k \in 0..MaxBufFrames} : Sorted(fr)}

AppIds == {"P1", "Ball", "P2"}

AppQueryTimes == {-5, 0, 100, 150, 600100}

QueryAppearance(id, afterTime) ==
  /\ query = None
  /\ query' = [op |-> "appearance", id |-> id, afterTime |-> afterTime,
               result |-> findNextAppearance(frames, id, afterTime)]
  /\ UNCHANGED << frames, playbackClock, isPlaying, isLive, playbackRate,
                  isLsMode, zones >>
  /\ UNCHANGED trackerVars

InitApp ==
  /\ frames \in AppInputs
  /\ InitRest

NextApp == \E id \in AppIds, afterTime \in AppQueryTimes : QueryAppearance(id, afterTime)

SpecApp == InitApp /\ [][NextApp]_vars

AppearanceAsked == query # None /\ query.op = "appearance"

\* the frames in which the asked id appears within the search window
AppearancesInWindow ==
  {i \in 1..Len(frames) :
     /\ frames[i].videoTime > query.afterTime
     /\ frames[i].videoTime <= query.afterTime + gracePeriodMs
     /\ \E k \in 1..Len(frames[i].players) : frames[i].players[k].id = query.id}

EarliestAppearance ==
  CHOOSE i \in AppearancesInWindow : \A j \in AppearancesInWindow : i <= j

\* C25: on sorted frames findNextAppearance(id, t) returns the sample and
\* the time of the earliest frame later than t and not later than
\* t + 600000 ms that contains the id, null when there is none, and never a
\* frame at or before t.
C25_EarliestLaterAppearance ==
  AppearanceAsked =>
    IF AppearancesInWindow = {} THEN query.result = None
    ELSE /\ query.result # None
         /\ query.result.time = frames[EarliestAppearance].videoTime
         /\ query.result.time > query.afterTime
         /\ query.result.player \in Members(frames[EarliestAppearance].players)
         /\ query.result.player.id = query.id

\* an id is found in a later frame although the frame at the asked time
\* holds it too, and a still later appearance lies beyond the window
C25_Witness ==
  /\ AppearanceAsked
  /\ query.result # None
  /\ query.result.time > query.afterTime
  /\ \E i \in 1..Len(frames) :
       /\ frames[i].videoTime = query.afterTime
       /\ \E k \in 1..Len(frames[i].players) : frames[i].players[k].id = query.id
  /\ \E i \in 1..Len(frames) :
       /\ frames[i].videoTime > query.afterTime + gracePeriodMs
       /\ \E k \in 1..Len(frames[i].players) : frames[i].players[k].id = query.id

\* C28: after every updateWithInterpolation on a frame pair with at least
\* one sample, each known entity is flagged inferred exactly when it is
\* absent from the next frame of the pair; no absent entity is left flagged
\* as observed, also after a seek past the end time of a stored gap.
C28_InferredIffAbsent ==
  (/\ lastUpdate # None
   /\ Len(frames[lastUpdate.prev].players) + Len(frames[lastUpdate.next].players) >= 1)
    => \A id \in DOMAIN playerMap :
         playerMap[id].isInferred <=> ~Has(frames[lastUpdate.next], id)

----------------------------------------------------------------------------
(* The playback clock under every control, the rate selector included *)

\* buffers that hold the ball only: every time list of the playback
\* scenarios, and a single frame that is not the file's frame 0
ClockTimeLists == ScenarioTimes \cup {<< FrameTime(n) >> : n \in 1..MaxFrames}

ClockBuffers ==
  {[i \in 1..Len(ts) |-> Frame(ts[i], << BallAtOrigin >>)] : ts \in ClockTimeLists}

InitClock ==
  /\ frames \in ClockBuffers
  /\ InitRest

NextClock ==
  \/ \E dt \in DtValues : Tick(dt)
  \/ PlayBtn
  \/ LiveBtn
  \/ Back10
  \/ Fwd10
  \/ \E v \in SliderValues : SliderInput(v)
  \/ \E ms \in TimestampValues : handleGoToTimestamp(ms)
  \/ \E v \in Rates : RateChange(v)

SpecClock == InitClock /\ [][NextClock]_vars

\* the step taken is an animation callback
TickTaken == ticks' = ticks + 1

ClockAtEnd(endTime) ==
  /\ playbackClock' <= endTime
  /\ isLive' <=> playbackClock' = endTime
  /\ playbackClock' = endTime => ~isPlaying'

\* C29 as stated: after every animation callback the clock does not exceed
\* the time of the buffer's last frame, isLive holds exactly when the clock
\* is at that time, and isPlaying is false whenever the clock is there.
C29_Original ==
  [][(TickTaken /\ Len(frames) > 0)
       => ClockAtEnd(frames[Len(frames)].videoTime)]_vars

\* C29 amended: the same with the end of the buffer's time span for the end
\* time, which is the time of the last frame for a buffer of two or more
\* frames and 0 for a buffer of fewer.
C29_ClockStopsAtSpanEnd ==
  [][TickTaken
       => ClockAtEnd(IF Len(frames) >= 2 THEN frames[Len(frames)].videoTime
                     ELSE 0)]_vars

\* playback at the fastest rate has run into the end of a buffer of several
\* frames and has stopped there
C29_Witness ==
  /\ Len(frames) >= 3
  /\ ticks >= 2
  /\ playbackRate = 4
  /\ playbackClock = frames[Len(frames)].videoTime
  /\ isLive
  /\ ~isPlaying
  /\ lastUpdate # None
  /\ lastUpdate.tick = ticks
  /\ lastUpdate.next = Len(frames)

----------------------------------------------------------------------------
(* Player: tracking and the current speed; positions in hundredths, dt in
   ms, speeds in hundredths per second *)

MaxSmooths == 3      \* smooth calls of one run

MIN_TRACK_DISTANCE == 50

\* the fields of a Player that tracking and scoring read and write
TrackedPlayer(name) ==
  [name |-> name, isBeingTracked |-> FALSE, trackLine |-> FALSE,
   trackPoints |-> 0, distanceCovered |-> 0, currentSpeed |-> 0,
   lastPosition |-> Vec(0, 0), pos |-> Vec(0, 0), targetRoot |-> Vec(0, 0)]

PlaneDistance(a, b) ==
  Sqrt((a.x - b.x) * (a.x - b.x) + (a.z - b.z) * (a.z - b.z))

\* the tracking block of smooth, for a mesh moved from prevPos to pos
TrackStep(p, prevPos, dt) ==
  LET farEnough == PlaneDistance(p.pos, p.lastPosition) > MIN_TRACK_DISTANCE
      distThisFrame == PlaneDistance(p.pos, prevPos)
  IN [p EXCEPT !.trackPoints = IF farEnough THEN @ + 1 ELSE @,
               !.lastPosition = IF farEnough THEN p.pos ELSE @,
               !.distanceCovered = @ + distThisFrame,
               !.currentSpeed = IF dt > 0 THEN (distThisFrame * 1000) \div dt
                                ELSE @]

\* Player.smooth(pct / 100, dt)
smoothTracked(p, pct, dt) ==
  LET moved == [p EXCEPT !.pos = Vec(Lerp1(p.pos.x, p.targetRoot.x, pct, 100),
                                     Lerp1(p.pos.z, p.targetRoot.z, pct, 100))]
  IN IF p.isBeingTracked /\ p.trackLine THEN TrackStep(moved, p.pos, dt)
     ELSE moved

startTracking(p) ==
  IF p.isBeingTracked \/ p.name = "Ball" THEN p
  ELSE [p EXCEPT !.isBeingTracked = TRUE, !.distanceCovered = 0,
                 !.trackPoints = 1, !.lastPosition = p.pos,
                 !.trackLine = TRUE]

\* stopTracking without the reset of the speed
stopTrackingKeepingSpeed(p) ==
  IF ~p.isBeingTracked THEN p
  ELSE [p EXCEPT !.isBeingTracked = FALSE, !.trackLine = FALSE]

stopTracking(p) ==
  IF ~p.isBeingTracked THEN p
  ELSE [p EXCEPT !.isBeingTracked = FALSE, !.currentSpeed = 0,
                 !.trackLine = FALSE]

clearTrackLine(p) ==
  IF ~p.isBeingTracked \/ ~p.trackLine THEN p
  ELSE [p EXCEPT !.distanceCovered = 0, !.trackPoints = 1,
                 !.lastPosition = p.pos]

\* the callback of ttas.map in calculateTeamControlMetrics, for one defender:
\* the player as the call leaves it, and its time to arrival in ms
ScoredPlayer(p) == [p EXCEPT !.currentSpeed = FixedSpeed(p)]

TimeToArrival(p, target) ==
  (PlaneDistance(p.pos, target) * 1000)
    \div Max(FixedSpeed(p), MIN_EFFECTIVE_SPEED)

TrackState(p, smooths, tta, op) ==
  [op |-> op, player |-> p, smooths |-> smooths, tta |-> tta]

TrackTargets == {Vec(0, 0), Vec(1000, 300)}

TrackDts == {0, 100}

ScoreTarget == Vec(2000, 0)

UpdateTarget(t) ==
  /\ query.player.targetRoot # t
  /\ query' = TrackState([query.player EXCEPT !.targetRoot = t], query.smooths,
                         0, "call")
  /\ UNCHANGED otherVars

Smooth(dt) ==
  /\ query.smooths < MaxSmooths
  /\ query' = TrackState(smoothTracked(query.player, SmoothPct, dt),
                         query.smooths + 1, 0, "call")
  /\ UNCHANGED otherVars

StartTracking ==
  /\ query' = TrackState(startTracking(query.player), query.smooths, 0,
                         "call")
  /\ UNCHANGED otherVars

StopTracking ==
  /\ query' = TrackState(stopTracking(query.player), query.smooths, 0,
                         "call")
  /\ UNCHANGED otherVars

ClearTrackLine ==
  /\ query' = TrackState(clearTrackLine(query.player), query.smooths, 0,
                         "call")
  /\ UNCHANGED otherVars

Scoring ==
  /\ query' = TrackState(ScoredPlayer(query.player), query.smooths,
                         TimeToArrival(query.player, ScoreTarget), "scoring")
  /\ UNCHANGED otherVars

InitTrack ==
  /\ query \in {TrackState(TrackedPlayer(name), 0, 0, "new") :
                  name \in {"P1", "Ball"}}
  /\ InitOther

NextTrack ==
  \/ \E t \in TrackTargets : UpdateTarget(t)
  \/ \E dt \in TrackDts : Smooth(dt)
  \/ StartTracking
  \/ StopTracking
  \/ ClearTrackLine
  \/ Scoring

SpecTrack == InitTrack /\ [][NextTrack]_vars

\* C30: across any sequence of smooth, startTracking, stopTracking and
\* scoring calls the player's currentSpeed is non-negative and is 0 whenever
\* the player is not being tracked, so the time to arrival of an untracked
\* player is computed with the minimum effective speed.
C30_SpeedZeroWhenUntracked ==
  /\ query.player.currentSpeed >= 0
  /\ ~query.player.isBeingTracked
       => /\ query.player.currentSpeed = 0
          /\ query.op = "scoring"
               => query.tta * MIN_EFFECTIVE_SPEED
                    <= PlaneDistance(query.player.pos, ScoreTarget) * 1000
                  /\ (query.tta + 1) * MIN_EFFECTIVE_SPEED
                       > PlaneDistance(query.player.pos, ScoreTarget) * 1000

\* a player that was tracked while moving, and had a speed above the
\* minimum, has been scored after its tracking was stopped
C30_Witness ==
  /\ query.op = "scoring"
  /\ ~query.player.isBeingTracked
  /\ query.player.distanceCovered > 0
  /\ query.player.pos # Vec(0, 0)
  /\ query.tta > 0

====
